---- MODULE Spec2Model ----
(***************************************************************************)
(* Document indexing and hybrid retrieval pipeline of MCPandLLM.           *)
(*                                                                         *)
(*   tools/chunking_tool.py   chunk_text_semantic, index_text_file,        *)
(*                            index_excel_file, index_file                 *)
(*   server/api.py            chunk_text_with_overlap, index_file_for_user *)
(*   vector_store/wv_store.py WeaviateStore (Document / FullDocument)      *)
(*   tools/search_tool.py     keyword_search_in_files, smart_search        *)
(*                                                                         *)
(* Three specifications share the variables of the module:                 *)
(*   SpecChunk   the paragraph chunker as a pure function of its inputs    *)
(*   Spec        the indexing calls against the two store collections,     *)
(*               one store call per step                                   *)
(*   SpecSearch  smart_search over a store and a files directory           *)
(*                                                                         *)
(* A text is a sequence of characters; NL stands for "\n".                 *)
(***************************************************************************)
EXTENDS Integers, Sequences, FiniteSets, Bags, TLC

VARIABLES
    \* --- SpecChunk -------------------------------------------------------
    text,          \* the input of chunk_text_semantic
    max_chars,     \* its max_chars parameter
    overlap,       \* its overlap parameter
    chunked,       \* FALSE until chunk_text_semantic has been applied
    chunks_out     \* the list it returned

VARIABLES
    \* --- Spec: the store and the indexing calls ---------------------------
    files,         \* storage folder: (owner, filename) -> text of the file
    fullDocs,      \* collection FullDocument, a bag of records
    documents,     \* collection Document (the chunks), a bag of records
    call,          \* the indexing call in progress and its position
    last,          \* the indexing call that returned last
    nfail          \* store calls that have failed so far

VARIABLES
    \* --- SpecSearch: smart_search ----------------------------------------
    s_docs,        \* collection Document in the order fetch_objects lists it
    s_dir,         \* the files of BASE_FILES_DIR in the order of iterdir()
    connected,     \* vector_store.is_connected()
    s_query,       \* arguments of smart_search: query, user_id, limit
    s_user_id,
    s_limit,
    searched,      \* FALSE until smart_search has returned
    signals,       \* what each of the three signals returned
    results,       \* the list smart_search returned
    context,       \* the context block built for the agent, and by which function
    lookup         \* a smart_search call taken one store query at a time: where it is

VARIABLES
    \* --- operations around the indexing calls ---------------------------
    cli,           \* the indexing call of a second process (chunking_tool run as a script)
    down,          \* TRUE while the store cannot be reached
    userMemory,    \* collection UserMemory
    chatHistory,   \* collection ChatHistory
    clearing,      \* the clear_user_data call in progress
    legacy_runs,   \* calls of the indexers that write through add_document alone
    removal        \* storage folder: which files were removed, and scanned since

VARIABLES
    \* --- SpecWords: chunk_text_with_overlap ------------------------------
    w_text,            \* its text argument
    w_max_words,       \* its max_words argument
    w_overlap_words,   \* its overlap_words argument
    windowed,          \* FALSE until it has been applied
    windows            \* the list it returned

VARIABLES
    \* --- SpecSheet: read_excel_structured on one worksheet ----------------
    sheet,             \* the worksheet's rows, each a list of formatted cells
    rendered,          \* what read_excel_structured made of it
    \* --- SpecBatch: index_all_files over a role folder --------------------
    batch,             \* the run: its files, its cursor and its three counters
    \* --- SpecUpload: save_and_index_file and the storage scans ------------
    upload,            \* the upload request and what it returned
    \* --- SpecLlm: send_to_llm ---------------------------------------------
    llm                \* the call: its max_tokens, its requests and its result

chunkVars == <<text, max_chars, overlap, chunked, chunks_out>>
indexVars == <<files, fullDocs, documents, call, last, nfail>>
searchVars == <<s_docs, s_dir, connected, s_query, s_user_id, s_limit, searched, signals, results, context, lookup>>

opsVars == <<cli, down, userMemory, chatHistory, clearing, legacy_runs, removal>>
lateVars == <<sheet, rendered, batch, upload, llm>>
wordVars == <<w_text, w_max_words, w_overlap_words, windowed, windows, lateVars>>

vars == <<chunkVars, indexVars, searchVars, opsVars, wordVars>>

-----------------------------------------------------------------------------
(* Bounds of the chunker's inputs *)

MaxTextLen == 7
MinMaxChars == 3
MaxMaxChars == 6
MaxOverlap == 3

NL == "nl"
Alphabet == {"a", NL}

RECURSIVE SeqsUpTo(_, _)
SeqsUpTo(S, n) ==
    IF n = 0 THEN {<<>>}
    ELSE LET shorter == SeqsUpTo(S, n - 1)
         IN  shorter \cup {Append(s, c) : s \in {t \in shorter : Len(t) = n - 1}, c \in S}

Texts == SeqsUpTo(Alphabet, MaxTextLen)

-----------------------------------------------------------------------------
(* str.split("\n\n") and "\n\n".join(...) *)

Sep == <<NL, NL>>

\* index of the first "\n\n" in s at or after position i, 0 when there is none
RECURSIVE FindSep(_, _)
FindSep(s, i) ==
    IF i + 1 > Len(s) THEN 0
    ELSE IF s[i] = NL /\ s[i + 1] = NL THEN i
    ELSE FindSep(s, i + 1)

RECURSIVE Split(_)
Split(s) ==
    LET p == FindSep(s, 1)
    IN  IF p = 0 THEN <<s>>
        ELSE <<SubSeq(s, 1, p - 1)>> \o Split(SubSeq(s, p + 2, Len(s)))

RECURSIVE Join(_)
Join(ps) ==
    IF Len(ps) = 0 THEN <<>>
    ELSE IF Len(ps) = 1 THEN ps[1]
    ELSE ps[1] \o Sep \o Join(Tail(ps))

RECURSIVE SumLen(_)
SumLen(ps) == IF Len(ps) = 0 THEN 0 ELSE Len(ps[1]) + SumLen(Tail(ps))

-----------------------------------------------------------------------------
(* chunk_text_semantic                                                     *)

\* The inner loop `for p in reversed(current_chunk)`: how many trailing
\* paragraphs of cur, scanning from index i down, are carried over when
\* acc characters were already taken.
RECURSIVE OverlapCount(_, _, _, _)
OverlapCount(cur, i, acc, ovl) ==
    IF i = 0 THEN 0
    ELSE IF acc + Len(cur[i]) > ovl THEN 0
    ELSE 1 + OverlapCount(cur, i - 1, acc + Len(cur[i]), ovl)

OverlapText(cur, ovl) ==
    LET k == OverlapCount(cur, Len(cur), 0, ovl)
    IN  SubSeq(cur, Len(cur) - k + 1, Len(cur))

\* One closed chunk: its paragraphs and, of these, the leading ones that were
\* carried over from the chunk before (the code keeps only the joined string;
\* `carried` is kept here so that properties can speak about the overlap).
Piece(paras, carried) == [paras |-> paras, carried |-> carried]

\* A chunker that forgets the paragraphs still open when the loop ends.
FlushLast_Forgotten(st) == st.chunks

\* `if current_chunk: chunks.append("\n\n".join(current_chunk))` after the loop.
FlushLast(st) ==
    IF Len(st.current_chunk) > 0
    THEN Append(st.chunks, Piece(st.current_chunk, st.carried))
    ELSE st.chunks

\* The body of `for para in paragraphs`, from paragraph i on.
\* st = [chunks, current_chunk, current_len, carried]
RECURSIVE ChunkLoop(_, _, _, _, _)
ChunkLoop(paragraphs, i, st, maxc, ovl) ==
    IF i > Len(paragraphs)
    THEN FlushLast(st)
    ELSE LET para == paragraphs[i]
             para_len == Len(para) + 2
             close == st.current_len + para_len > maxc /\ Len(st.current_chunk) > 0
             overlap_text == OverlapText(st.current_chunk, ovl)
             st1 == IF close
                    THEN [chunks        |-> Append(st.chunks, Piece(st.current_chunk, st.carried)),
                          current_chunk |-> overlap_text,
                          current_len   |-> SumLen(overlap_text),
                          carried       |-> overlap_text]
                    ELSE st
             st2 == [st1 EXCEPT !.current_chunk = Append(@, para),
                                !.current_len = @ + para_len]
         IN  ChunkLoop(paragraphs, i + 1, st2, maxc, ovl)

\* The dicts returned: content, index, total; carried is the overlap taken
\* from the chunk before (a list of whole paragraphs, empty for chunk 0).
chunk_text_semantic(t, maxc, ovl) ==
    IF Len(t) <= maxc
    THEN <<[content |-> t, index |-> 0, total |-> 1, carried |-> <<>>]>>
    ELSE LET pieces == ChunkLoop(Split(t), 1,
                                 [chunks |-> <<>>, current_chunk |-> <<>>,
                                  current_len |-> 0, carried |-> <<>>],
                                 maxc, ovl)
         IN  [k \in 1..Len(pieces) |->
                 [content |-> Join(pieces[k].paras),
                  index   |-> k - 1,
                  total   |-> Len(pieces),
                  carried |-> pieces[k].carried]]

-----------------------------------------------------------------------------
(* SpecChunk: chunk_text_semantic applied to every bounded input           *)

IndexUnused ==
    /\ files = << >>
    /\ fullDocs = EmptyBag
    /\ documents = EmptyBag
    /\ call = << >>
    /\ last = << >>
    /\ nfail = 0

FileTxt == [stem |-> "d", suffix |-> ".txt"]
FileXls == [stem |-> "t", suffix |-> ".xlsx"]

\* the files of the storage folder: an owner's folder and a file in it
Keys == {<<"u1", FileTxt>>, <<"u2", FileXls>>}

\* every file of the storage folder is in place
NoRemoval == [k \in Keys |-> "present"]

OpsUnused ==
    /\ cli = [pc |-> "idle"]
    /\ down = FALSE
    /\ userMemory = EmptyBag
    /\ chatHistory = EmptyBag
    /\ clearing = [pc |-> "idle"]
    /\ legacy_runs = 0
    /\ removal = NoRemoval

NoRender == [done |-> FALSE, headers |-> <<>>, header_idx |-> 0, content |-> <<>>]
SheetUnused == sheet = <<>> /\ rendered = NoRender
BatchUnused == batch = [pc |-> "idle"]
UploadUnused == upload = [pc |-> "idle"]
LlmUnused == llm = [pc |-> "idle"]
LateUnused == SheetUnused /\ BatchUnused /\ UploadUnused /\ LlmUnused

WordsUnused ==
    /\ LateUnused
    /\ w_text = <<>>
    /\ w_max_words = 0
    /\ w_overlap_words = 0
    /\ windowed = FALSE
    /\ windows = <<>>

\* no search is under way; silent names the store query that gets no answer
NoLookup == [pc |-> "idle", silent |-> "none"]

SearchUnused ==
    /\ s_docs = <<>>
    /\ s_dir = <<>>
    /\ connected = FALSE
    /\ s_query = <<>>
    /\ s_user_id = ""
    /\ s_limit = 0
    /\ searched = FALSE
    /\ signals = << >>
    /\ results = <<>>
    /\ context = << >>
    /\ lookup = NoLookup

ChunkInit ==
    /\ IndexUnused
    /\ SearchUnused
    /\ OpsUnused
    /\ WordsUnused
    /\ text \in Texts
    /\ max_chars \in MinMaxChars..MaxMaxChars
    /\ overlap \in 0..MaxOverlap
    /\ chunked = FALSE
    /\ chunks_out = <<>>

ApplyChunker ==
    /\ ~chunked
    /\ chunked' = TRUE
    /\ chunks_out' = chunk_text_semantic(text, max_chars, overlap)
    /\ UNCHANGED <<text, max_chars, overlap>>
    /\ UNCHANGED <<indexVars, searchVars, opsVars, wordVars>>

ChunkNext == ApplyChunker

SpecChunk == ChunkInit /\ [][ChunkNext]_vars

-----------------------------------------------------------------------------
(* Properties of chunk_text_semantic (SpecChunk)                           *)

RECURSIVE Flatten(_)
Flatten(ss) == IF Len(ss) = 0 THEN <<>> ELSE ss[1] \o Flatten(Tail(ss))

IsSuffix(s, t) == Len(s) <= Len(t) /\ SubSeq(t, Len(t) - Len(s) + 1, Len(t)) = s

\* The carried-over text as it stands at the head of a chunk.
CarriedText(c) == Join(c.carried)

\* What is left of a chunk when exactly the carried-over text is cut off.
AfterCarried(c) == SubSeq(c.content, Len(CarriedText(c)) + 1, Len(c.content))

\* The paragraphs a chunk adds: the carried-over paragraphs and the separator
\* that ties them to the new ones are cut off.
NewRegion(c) ==
    IF Len(c.carried) = 0 THEN c.content
    ELSE SubSeq(c.content, Len(CarriedText(c)) + Len(Sep) + 1, Len(c.content))

\* C6 as stated: the chunks' non-overlap regions, concatenated in order,
\* are the original text. The regions are taken in the reading most
\* favourable to the claim (everything after the carried-over text).
C6_ConcatReproducesText ==
    chunked => Flatten([k \in 1..Len(chunks_out) |-> AfterCarried(chunks_out[k])]) = text

\* C6 amended: the non-overlap regions of the chunks, joined in order with the
\* paragraph separator "\n\n" between consecutive regions, are the original
\* text: no paragraph is lost, duplicated or reordered at a chunk boundary.
C6_RegionsJoinedReproduceText ==
    chunked => Join([k \in 1..Len(chunks_out) |-> NewRegion(chunks_out[k])]) = text

\* chunk_text_semantic returned several chunks, one that starts with
\* carried-over paragraphs and one that carries nothing over.
C6_Witness ==
    /\ chunked
    /\ Len(chunks_out) >= 3
    /\ \E k \in 2..Len(chunks_out) : Len(chunks_out[k].carried) > 0
    /\ \E k \in 2..Len(chunks_out) : Len(chunks_out[k].carried) = 0

\* C7: for consecutive chunks the text carried over from the end of the
\* earlier chunk to the head of the later one, as it stands in the chunk
\* (separators included), is at most `overlap` characters long and is made
\* of whole paragraphs of the earlier chunk.
C7_OverlapBound ==
    chunked =>
        \A k \in 2..Len(chunks_out) :
            /\ Len(CarriedText(chunks_out[k])) <= overlap
            /\ IsSuffix(CarriedText(chunks_out[k]), chunks_out[k - 1].content)
            /\ \E n \in 0..Len(Split(chunks_out[k - 1].content)) :
                   LET ps == Split(chunks_out[k - 1].content)
                   IN  chunks_out[k].carried = SubSeq(ps, Len(ps) - n + 1, Len(ps))

-----------------------------------------------------------------------------
(* Text helpers of the indexing calls                                      *)

SP == " "
IsSpace(c) == c \in {SP, NL}

\* str.strip()
RECURSIVE LStrip(_)
LStrip(s) == IF Len(s) > 0 /\ IsSpace(s[1]) THEN LStrip(Tail(s)) ELSE s

RECURSIVE RStrip(_)
RStrip(s) == IF Len(s) > 0 /\ IsSpace(s[Len(s)]) THEN RStrip(SubSeq(s, 1, Len(s) - 1)) ELSE s

Strip(s) == RStrip(LStrip(s))

\* last position of the word that starts at t[1]
RECURSIVE WordEnd(_, _)
WordEnd(t, i) == IF i < Len(t) /\ ~IsSpace(t[i + 1]) THEN WordEnd(t, i + 1) ELSE i

\* str.split(): the words of s
RECURSIVE Words(_)
Words(s) ==
    LET t == LStrip(s)
    IN  IF Len(t) = 0 THEN <<>>
        ELSE LET n == WordEnd(t, 1)
             IN  <<SubSeq(t, 1, n)>> \o Words(SubSeq(t, n + 1, Len(t)))

\* " ".join(ws)
RECURSIVE JoinSp(_)
JoinSp(ws) ==
    IF Len(ws) = 0 THEN <<>>
    ELSE IF Len(ws) = 1 THEN ws[1]
    ELSE ws[1] \o <<SP>> \o JoinSp(Tail(ws))

Min(a, b) == IF a <= b THEN a ELSE b

\* A window loop whose step is max_words: the windows do not overlap.
RECURSIVE WindowLoop_NoOverlap(_, _, _, _)
WindowLoop_NoOverlap(words, start, max_words, overlap_words) ==
    IF start >= Len(words) THEN <<>>
    ELSE <<JoinSp(SubSeq(words, start + 1, Min(start + max_words, Len(words))))>>
         \o WindowLoop_NoOverlap(words, start + max_words, max_words, overlap_words)

\* `while start < len(words)` of chunk_text_with_overlap
RECURSIVE WindowLoop(_, _, _, _)
WindowLoop(words, start, max_words, overlap_words) ==
    IF start >= Len(words) THEN <<>>
    ELSE <<JoinSp(SubSeq(words, start + 1, Min(start + max_words, Len(words))))>>
         \o WindowLoop(words, start + (max_words - overlap_words), max_words, overlap_words)

chunk_text_with_overlap(t, max_words, overlap_words) ==
    IF Len(Words(t)) <= max_words THEN <<t>>
    ELSE WindowLoop(Words(t), 0, max_words, overlap_words)

\* md5 of the content, taken as free of collisions
_hash_content(content) == [md5 |-> content]

ErrorMarks == {"E"}

\* is_error_response of chunking_tool: empty, or starting with an error word
\* ("E" stands for the words "Ошибка", "File error", "Error", "Файл")
is_error_response(content) ==
    \/ Len(content) = 0
    \/ Len(Strip(content)) > 0 /\ Strip(content)[1] \in ErrorMarks

-----------------------------------------------------------------------------
(* The storage folder and the two collections                              *)

\* The ceilings of the code are 3000 / 300 characters and 500 / 50 words;
\* they are scaled down so that texts on both sides of them can be listed.
CHUNK_MAX_CHARS == 6
CHUNK_OVERLAP_CHARS == 1
MAX_WORDS == 2
OVERLAP_WORDS == 1

\* store calls that may fail in one behaviour
MaxFailures == 2

DocW == <<"a", SP, "a", SP, "a">>           \* under the character ceiling, over the word ceiling
DocL == <<"a", NL, NL, "b", NL, NL, "a">>   \* over the character ceiling
DocSet == {DocW, DocL}

OwnerOf(k) == k[1]
NameOf(k) == k[2]

SummaryPrefix == <<"S", NL, NL>>     \* f"[SUMMARY: {summary}]\n\n"

FullRecord(user_id, filename, content) ==
    [user_id |-> user_id, filename |-> filename,
     doc_hash |-> _hash_content(content), content |-> content]

ChunkRecord(user_id, filename, doc_hash, is_table, c) ==
    [user_id |-> user_id, filename |-> filename, doc_hash |-> doc_hash,
     chunk_index |-> c.index, total_chunks |-> c.total,
     content |-> c.content, is_table |-> is_table]

\* the filter user_id == u & filename == f of fetch_objects / delete_many
Matching(bag, user_id, filename) ==
    {r \in BagToSet(bag) : r.user_id = user_id /\ r.filename = filename}

\* collection.data.delete_many(where = user_id & filename)
DeleteMany(bag, user_id, filename) ==
    LET keep == BagToSet(bag) \ Matching(bag, user_id, filename)
    IN  [r \in keep |-> bag[r]]

\* collection.data.insert(props)
Insert(bag, r) == bag (+) SetToBag({r})

CountOf(bag, user_id, filename) ==
    BagCardinality([r \in Matching(bag, user_id, filename) |-> bag[r]])

\* A change detector that never recognises a stored document.
ExistsAnswers_Never(fd, filename, user_id, doc_hash) == {FALSE}

\* document_exists: fetch_objects(limit=1) hands back any one record of the
\* (user, filename); the answers a call that reaches the store can give.
ExistsAnswers(fd, filename, user_id, doc_hash) ==
    IF Matching(fd, user_id, filename) = {} THEN {FALSE}
    ELSE {r.doc_hash = doc_hash : r \in Matching(fd, user_id, filename)}

-----------------------------------------------------------------------------
(* The indexing calls: index_file (chunking_tool) and index_file_for_user   *)
(* (api), one store call per step                                          *)

IdleCall == [pc |-> "idle"]
NoLast == [outcome |-> "none"]

IsTable(via, filename) ==
    IF via = "index_file"
    THEN filename.suffix \in {".xlsx", ".xls", ".csv"}
    ELSE filename.suffix \in {".xlsx", ".xls"}

\* The normalized content a call works on. index_file_for_user reads a table
\* through read_excel(str(file_path)), whose heading line is the whole path
\* ("P") instead of the file name, and strips what it read.
ContentRead(via, k) ==
    IF via = "index_file" THEN files[k]
    ELSE IF IsTable(via, NameOf(k)) THEN Strip(<<"P">> \o files[k])
    ELSE Strip(files[k])

\* The chunks a call will insert, in order: content, index, total.
ChunksToInsert(via, is_table, content) ==
    IF via = "index_file"
    THEN IF Len(content) <= CHUNK_MAX_CHARS
         THEN <<[content |-> content, index |-> 0, total |-> 1]>>
         ELSE LET cs == chunk_text_semantic(content, CHUNK_MAX_CHARS, CHUNK_OVERLAP_CHARS)
              IN  [j \in 1..Len(cs) |->
                      [content |-> IF cs[j].index = 0
                                   THEN SummaryPrefix \o cs[j].content
                                   ELSE cs[j].content,
                       index |-> cs[j].index, total |-> cs[j].total]]
    ELSE IF is_table
         THEN <<[content |-> content, index |-> 0, total |-> 1]>>
         ELSE LET ws == chunk_text_with_overlap(content, MAX_WORDS, OVERLAP_WORDS)
              IN  [j \in 1..Len(ws) |-> [content |-> ws[j], index |-> j - 1, total |-> Len(ws)]]

Outcome(result) ==
    IF result.skipped THEN "skipped"
    ELSE IF result.success THEN "indexed"
    ELSE "failed"

\* A store call either goes through or fails (an exception, a lost
\* connection); failures are counted against MaxFailures. While the store
\* is unreachable (down) every store call fails.
MayFail(ok) == IF down THEN ~ok ELSE ok \/ nfail < MaxFailures
CountFail(ok) == nfail' = IF ok \/ down THEN nfail ELSE nfail + 1

IndexInit ==
    /\ files \in [Keys -> DocSet]
    /\ fullDocs = EmptyBag
    /\ documents = EmptyBag
    /\ call = IdleCall
    /\ last = NoLast
    /\ nfail = 0
    /\ text = <<>>
    /\ max_chars = 0
    /\ overlap = 0
    /\ chunked = FALSE
    /\ chunks_out = <<>>
    /\ SearchUnused
    /\ OpsUnused
    /\ WordsUnused

\* The owner or an editor replaces the file in the storage folder.
EditFile(k, c) ==
    /\ call.pc = "idle"
    /\ c # files[k]
    /\ files' = [files EXCEPT ![k] = c]
    /\ UNCHANGED <<fullDocs, documents, call, last, nfail>>
    /\ UNCHANGED <<chunkVars, searchVars, opsVars, wordVars>>

\* index_text_file / index_excel_file / index_file_for_user up to the call of
\* add_full_document: read, normalize, hash. The chunking_tool indexers give
\* up on an error response of the reader.
BegunCall(k, via) ==
    LET content == ContentRead(via, k)
        is_table == IsTable(via, NameOf(k))
    IN  IF via = "index_file" /\ is_error_response(content)
        THEN [pc |-> "done", via |-> via, key |-> k, content |-> content,
              doc_hash |-> _hash_content(content), is_table |-> is_table,
              todo |-> <<>>, i |-> 1, success_chunks |-> 0, failed |-> FALSE,
              result |-> [success |-> FALSE, chunks |-> 0, skipped |-> FALSE],
              snapFull |-> fullDocs, snapDocs |-> documents]
        ELSE [pc |-> "exists", via |-> via, key |-> k, content |-> content,
              doc_hash |-> _hash_content(content), is_table |-> is_table,
              todo |-> ChunksToInsert(via, is_table, content),
              i |-> 1, success_chunks |-> 0, failed |-> FALSE,
              result |-> [success |-> FALSE, chunks |-> 0, skipped |-> FALSE],
              snapFull |-> fullDocs, snapDocs |-> documents]

IndexBegin(k, via) ==
    /\ call.pc = "idle"
    /\ call' = BegunCall(k, via)
    /\ UNCHANGED <<files, fullDocs, documents, last, nfail>>
    /\ UNCHANGED <<chunkVars, searchVars, opsVars, wordVars>>

\* add_full_document: document_exists. A failed lookup answers False.
StepExists(ok) ==
    /\ call.pc = "exists"
    /\ MayFail(ok)
    /\ CountFail(ok)
    /\ \E exists \in IF ok
                     THEN ExistsAnswers(fullDocs, NameOf(call.key), OwnerOf(call.key), call.doc_hash)
                     ELSE {FALSE} :
          call' = IF exists
                  THEN [call EXCEPT !.pc = "done",
                                    !.result = [success |-> TRUE, chunks |-> 0, skipped |-> TRUE]]
                  ELSE [call EXCEPT !.pc = "delfull", !.failed = @ \/ ~ok]
    /\ UNCHANGED <<files, fullDocs, documents, last>>
    /\ UNCHANGED <<chunkVars, searchVars, opsVars, wordVars>>

\* add_full_document: _delete_full_document, which swallows its error.
StepDeleteFull(ok) ==
    /\ call.pc = "delfull"
    /\ MayFail(ok)
    /\ CountFail(ok)
    /\ fullDocs' = IF ok
                   THEN DeleteMany(fullDocs, OwnerOf(call.key), NameOf(call.key))
                   ELSE fullDocs
    /\ call' = [call EXCEPT !.pc = "insfull", !.failed = @ \/ ~ok]
    /\ UNCHANGED <<files, documents, last>>
    /\ UNCHANGED <<chunkVars, searchVars, opsVars, wordVars>>

\* add_full_document: collection.data.insert. Whatever it returns short of
\* "skipped", the caller goes on to the chunks.
StepInsertFull(ok) ==
    /\ call.pc = "insfull"
    /\ MayFail(ok)
    /\ CountFail(ok)
    /\ fullDocs' = IF ok
                   THEN Insert(fullDocs, FullRecord(OwnerOf(call.key), NameOf(call.key), call.content))
                   ELSE fullDocs
    /\ call' = [call EXCEPT !.pc = "delchunks", !.failed = @ \/ ~ok]
    /\ UNCHANGED <<files, documents, last>>
    /\ UNCHANGED <<chunkVars, searchVars, opsVars, wordVars>>

\* _delete_chunks, which swallows its error.
StepDeleteChunks(ok) ==
    /\ call.pc = "delchunks"
    /\ MayFail(ok)
    /\ CountFail(ok)
    /\ documents' = IF ok
                    THEN DeleteMany(documents, OwnerOf(call.key), NameOf(call.key))
                    ELSE documents
    /\ call' = [call EXCEPT !.pc = "inschunk", !.failed = @ \/ ~ok]
    /\ UNCHANGED <<files, fullDocs, last>>
    /\ UNCHANGED <<chunkVars, searchVars, opsVars, wordVars>>

\* What the call returns once chunk number i (the last one) is dealt with.
FinalResult(c, ok) ==
    LET n == c.success_chunks + (IF ok THEN 1 ELSE 0)
    IN  IF c.via = "index_file" /\ Len(c.content) <= CHUNK_MAX_CHARS
        THEN [success |-> ok, chunks |-> 1, skipped |-> FALSE]
        ELSE [success |-> TRUE, chunks |-> n, skipped |-> FALSE]

\* add_document for chunk number i of the call.
StepInsertChunk(ok) ==
    /\ call.pc = "inschunk"
    /\ MayFail(ok)
    /\ CountFail(ok)
    /\ documents' = IF ok
                    THEN Insert(documents,
                                ChunkRecord(OwnerOf(call.key), NameOf(call.key), call.doc_hash,
                                            call.is_table, call.todo[call.i]))
                    ELSE documents
    /\ call' = IF call.i = Len(call.todo)
               THEN [call EXCEPT !.pc = "done", !.failed = @ \/ ~ok,
                                 !.success_chunks = @ + (IF ok THEN 1 ELSE 0),
                                 !.result = FinalResult(call, ok)]
               ELSE [call EXCEPT !.i = @ + 1, !.failed = @ \/ ~ok,
                                 !.success_chunks = @ + (IF ok THEN 1 ELSE 0)]
    /\ UNCHANGED <<files, fullDocs, last>>
    /\ UNCHANGED <<chunkVars, searchVars, opsVars, wordVars>>

\* The call returns to its caller.
IndexReturn ==
    /\ call.pc = "done"
    /\ last' = [outcome |-> Outcome(call.result), key |-> call.key,
                doc_hash |-> call.doc_hash, clean |-> ~call.failed]
    /\ call' = IdleCall
    /\ UNCHANGED <<files, fullDocs, documents, nfail>>
    /\ UNCHANGED <<chunkVars, searchVars, opsVars, wordVars>>

Next ==
    \/ \E k \in Keys, c \in DocSet : EditFile(k, c)
    \/ \E k \in Keys, via \in {"index_file", "index_file_for_user"} : IndexBegin(k, via)
    \/ \E ok \in BOOLEAN : StepExists(ok)
    \/ \E ok \in BOOLEAN : StepDeleteFull(ok)
    \/ \E ok \in BOOLEAN : StepInsertFull(ok)
    \/ \E ok \in BOOLEAN : StepDeleteChunks(ok)
    \/ \E ok \in BOOLEAN : StepInsertChunk(ok)
    \/ IndexReturn

Spec == IndexInit /\ [][Next]_vars

-----------------------------------------------------------------------------
(* Properties of the indexing calls (Spec)                                 *)

ChunksOf(k) == Matching(documents, OwnerOf(k), NameOf(k))
FullsOf(k) == Matching(fullDocs, OwnerOf(k), NameOf(k))

\* The call in progress has returned from its last store call, and none of
\* its store calls failed.
CleanCallDone == call.pc = "done" /\ ~call.failed /\ ~is_error_response(call.content)

\* C2: with no store call failing, a call that finds no full document with
\* the content's hash reports "indexed" with all its chunks, and the next
\* call for the same (owner, filename) and the same normalized content
\* reports "skipped" and leaves the FullDocument and the Document collection
\* exactly as they were.
C2_IdempotentReindex ==
    CleanCallDone =>
        /\ (\A f \in Matching(call.snapFull, OwnerOf(call.key), NameOf(call.key)) :
                f.doc_hash # call.doc_hash)
             => /\ Outcome(call.result) = "indexed"
                /\ call.result.chunks = Len(call.todo)
        /\ (/\ last.outcome = "indexed"
            /\ last.clean
            /\ last.key = call.key
            /\ last.doc_hash = call.doc_hash)
             => /\ Outcome(call.result) = "skipped"
                /\ fullDocs = call.snapFull
                /\ documents = call.snapDocs

\* A second call on unchanged content of a document of several chunks has
\* been answered.
C2_Witness ==
    /\ CleanCallDone
    /\ last.outcome = "indexed"
    /\ last.clean
    /\ last.key = call.key
    /\ last.doc_hash = call.doc_hash
    /\ call.result.skipped
    /\ CountOf(documents, OwnerOf(call.key), NameOf(call.key)) >= 2

\* C3: whenever no indexing call is in progress, every stored chunk carries
\* the doc_hash of the full-document record of its (owner, filename), and
\* there is such a record.
C3_GenerationAgreement ==
    call.pc = "idle" =>
        \A c \in BagToSet(documents) :
            /\ Matching(fullDocs, c.user_id, c.filename) # {}
            /\ \A f \in Matching(fullDocs, c.user_id, c.filename) : f.doc_hash = c.doc_hash

\* C4: at every point in time the chunks stored for an (owner, filename)
\* have one common total_chunks and the chunk_index values
\* 0 .. total_chunks - 1, each once.
C4_ChunkContiguity ==
    \A k \in Keys :
        \/ ChunksOf(k) = {}
        \/ \E n \in 1..(MaxTextLen + 1) :
              /\ \A c \in ChunksOf(k) : c.total_chunks = n /\ documents[c] = 1
              /\ {c.chunk_index : c \in ChunksOf(k)} = 0..(n - 1)
              /\ Cardinality(ChunksOf(k)) = n

\* C5: the FullDocument collection holds at most one record per
\* (owner, filename).
C5_SingleFullDocument ==
    \A k \in Keys : CountOf(fullDocs, OwnerOf(k), NameOf(k)) <= 1

\* C8: an index_file call on content of at most CHUNK_MAX_CHARS characters,
\* none of whose store calls failed, leaves exactly one chunk stored for the
\* (owner, filename): chunk_index 0, total_chunks 1, the whole content.
C8_SmallDocumentOneChunk ==
    (CleanCallDone /\ call.via = "index_file" /\ Len(call.content) <= CHUNK_MAX_CHARS) =>
        /\ Cardinality(ChunksOf(call.key)) = 1
        /\ \A c \in ChunksOf(call.key) :
              /\ documents[c] = 1
              /\ c.chunk_index = 0
              /\ c.total_chunks = 1
              /\ c.content = call.content


\* ======================================================================
\* Search: src/tools/search_tool.py over src/vector_store/wv_store.py
\* ======================================================================

\* Scores are kept in tenths: 10 stands for 1.0, MIN_SCORE for 0.5.
MIN_PATTERN_LENGTH == 3
MIN_SCORE == 5
FILENAME_SCORE == 10
KEYWORD_SCORE == 10

\* fetch_objects(limit=100) of search_by_filename, scaled to the model.
FETCH_LIMIT == 2

\* The characters of context kept on each side of a keyword match (300 in the
\* code), scaled to the model.
DEFAULT_KEYWORD_CONTEXT_CHARS == 1

\* One stop word stands for the set KEYWORD_STOP_WORDS.
KEYWORD_STOP_WORDS == {<<"b", "b", "b">>}

\* str.lower() over the letters of the model.
LowerChar(c) == IF c = "A" THEN "a" ELSE c
lower(s) == [i \in 1..Len(s) |-> LowerChar(s[i])]

\* str.find(needle, start): the least 0-based position, or -1.
Find(hay, needle, start) ==
    LET cand == {p \in start..(Len(hay) - Len(needle)) :
                    SubSeq(hay, p + 1, p + Len(needle)) = needle}
    IN IF cand = {} THEN -1 ELSE CHOOSE p \in cand : \A o \in cand : p <= o

Contains(hay, needle) == Find(hay, needle, 0) # -1

Take(s, n) == SubSeq(s, 1, Min(Len(s), n))

\* re.findall(r'\b[A-Za-z...0-9_-]{3,}\b', query): the maximal runs of word
\* characters that are long enough.
RECURSIVE TokenLoop(_, _, _, _)
TokenLoop(q, i, cur, acc) ==
    LET flushed == IF Len(cur) >= MIN_PATTERN_LENGTH THEN Append(acc, cur) ELSE acc
    IN IF i > Len(q) THEN flushed
       ELSE IF IsSpace(q[i]) THEN TokenLoop(q, i + 1, <<>>, flushed)
       ELSE TokenLoop(q, i + 1, Append(cur, q[i]), acc)

Tokens(q) == TokenLoop(q, 1, <<>>, <<>>)

\* Python's string order on the letters of the model: 'A' < 'a' < 'b'.
CharRank(c) == CASE c = "A" -> 0 [] c = "a" -> 1 [] c = "b" -> 2 [] OTHER -> 3

RECURSIVE StrLeq(_, _)
StrLeq(s, t) ==
    IF Len(s) = 0 THEN TRUE
    ELSE IF Len(t) = 0 THEN FALSE
    ELSE IF s[1] # t[1] THEN CharRank(s[1]) < CharRank(t[1])
    ELSE StrLeq(Tail(s), Tail(t))

\* tokens.sort(key=lambda s: (-len(s), s)); tokens[0]
extract_filename_pattern(q) ==
    LET all == Tokens(q)
        tokens == {all[i] : i \in {j \in 1..Len(all) : lower(all[j]) \notin KEYWORD_STOP_WORDS}}
    IN IF tokens = {} THEN <<>>
       ELSE CHOOSE t \in tokens :
                \A u \in tokens : Len(t) > Len(u) \/ (Len(t) = Len(u) /\ StrLeq(t, u))

\* The file names of the model. NameB stands for a spreadsheet name (suffix
\* .xlsx, .xls or .csv), the other two for text files.
NameA == <<"a", "a", "a">>
NameAb == <<"A", "a", "a", "b">>
NameB == <<"b", "b", "a">>
TableNames == {NameB}

\* A result entry. owner is not a key of the dictionaries the code returns: it
\* records whose document the entry was taken from.
Hit(filename, match_type, score, chunk_index, owner, content, is_table, total_chunks) ==
    [filename |-> filename, match_type |-> match_type, score |-> score,
     chunk_index |-> chunk_index, owner |-> owner, content |-> content,
     is_table |-> is_table, total_chunks |-> total_chunks]

OfUser(docs, uid) == SelectSeq(docs, LAMBDA d : d.user_id = uid)

\* VectorStore.search_by_filename, with the tag filename_search puts on.
search_by_filename(filename_pattern, uid, lim) ==
    LET fetched == Take(OfUser(s_docs, uid), FETCH_LIMIT)
        pattern_lower == lower(filename_pattern)
        matched == SelectSeq(fetched, LAMBDA d : Contains(lower(d.filename), pattern_lower))
    IN [i \in 1..Min(Len(matched), lim) |->
            Hit(matched[i].filename, "filename", FILENAME_SCORE,
                matched[i].chunk_index, matched[i].user_id, matched[i].content,
                matched[i].is_table, matched[i].total_chunks)]

\* A stable sort of records by their integer field key.
InsertByKey(sorted, x) ==
    LET n == Cardinality({i \in 1..Len(sorted) : sorted[i].key <= x.key})
    IN SubSeq(sorted, 1, n) \o <<x>> \o SubSeq(sorted, n + 1, Len(sorted))

RECURSIVE StableSort(_)
StableSort(s) ==
    IF Len(s) = 0 THEN <<>>
    ELSE InsertByKey(StableSort(SubSeq(s, 1, Len(s) - 1)), s[Len(s)])

\* VectorStore.search_documents: near_text lists the owner's chunks nearest
\* first and at most lim of them; score = 1 - distance; low scores dropped.
search_documents(uid, lim) ==
    LET mine == OfUser(s_docs, uid)
        keyed == [i \in 1..Len(mine) |-> [key |-> 10 - mine[i].score, val |-> mine[i]]]
        nearest == Take(StableSort(keyed), lim)
        kept == SelectSeq(nearest, LAMBDA k : k.val.score >= MIN_SCORE)
    IN [i \in 1..Len(kept) |->
            Hit(kept[i].val.filename, "semantic", kept[i].val.score,
                kept[i].val.chunk_index, kept[i].val.user_id, kept[i].val.content,
                kept[i].val.is_table, kept[i].val.total_chunks)]


\* is_error_response of search_tool.py: empty content counts as an error.
search_is_error_response(content) ==
    \/ Len(content) = 0
    \/ (Len(Strip(content)) > 0 /\ Strip(content)[1] \in ErrorMarks)

\* The inner while loop of keyword_search_in_files over one file: every
\* occurrence is a hit, the scan resumes one character after the last
\* occurrence, and the whole search returns once top_n hits are collected.
\* content[context_start:context_end].replace("\n", " ").strip() between the
\* "..." that mark a cut; the window is measured with the query as given.
Dots == <<".", ".", ".">>

Snippet(content, pos, query_len, context_chars) ==
    LET context_start == IF pos - context_chars > 0 THEN pos - context_chars ELSE 0
        context_end == Min(Len(content), pos + query_len + context_chars)
        cut == SubSeq(content, context_start + 1, context_end)
        flat == [i \in 1..Len(cut) |-> IF cut[i] = NL THEN SP ELSE cut[i]]
    IN (IF context_start > 0 THEN Dots ELSE <<>>)
       \o Strip(flat)
       \o (IF context_end < Len(content) THEN Dots ELSE <<>>)

RECURSIVE ScanFile(_, _, _, _, _, _, _)
ScanFile(file, query_lower, query_len, start, match_count, hits, top_n) ==
    LET pos == Find(lower(file.content), query_lower, start)
        more == Append(hits, Hit(file.filename, "keyword", KEYWORD_SCORE, match_count, file.owner,
                                 Snippet(file.content, pos, query_len, DEFAULT_KEYWORD_CONTEXT_CHARS),
                                 file.filename \in TableNames, -1))
    IN IF pos = -1 THEN [hits |-> hits, returned |-> FALSE]
       ELSE IF Len(more) >= top_n THEN [hits |-> more, returned |-> TRUE]
       ELSE ScanFile(file, query_lower, query_len, pos + 1, match_count + 1, more, top_n)

RECURSIVE ScanDir(_, _, _, _, _)
ScanDir(i, query_lower, query_len, hits, top_n) ==
    IF i > Len(s_dir) THEN hits
    ELSE IF search_is_error_response(s_dir[i].content)
         THEN ScanDir(i + 1, query_lower, query_len, hits, top_n)
    ELSE LET r == ScanFile(s_dir[i], query_lower, query_len, 0, 0, hits, top_n)
         IN IF r.returned THEN r.hits ELSE ScanDir(i + 1, query_lower, query_len, r.hits, top_n)

keyword_search_in_files(q, top_n) ==
    LET query_lower == Strip(lower(q))
    IN IF Len(query_lower) = 0 THEN <<>> ELSE ScanDir(1, query_lower, Len(q), <<>>, top_n)

\* store_ok = FALSE: the store call raises, the signal logs and returns [].
filename_search(q, uid, lim, store_ok) ==
    LET pattern == extract_filename_pattern(q)
    IN IF Len(pattern) = 0 \/ ~connected \/ ~store_ok THEN <<>>
       ELSE search_by_filename(pattern, uid, lim)

\* A semantic signal that hands on what the store listed although the call raised.
semantic_search_Unguarded(q, uid, lim, store_ok) ==
    IF ~connected THEN <<>> ELSE search_documents(uid, lim)

semantic_search(q, uid, lim, store_ok) ==
    IF ~connected \/ ~store_ok THEN <<>> ELSE search_documents(uid, lim)

FileNames(rs) == {rs[i].filename : i \in 1..Len(rs)}

\* for doc in docs: if key and key not in seen: results.append(doc); seen.add(key)
AddUnseen_All(rs, docs) == rs \o docs

RECURSIVE AddUnseen(_, _)
AddUnseen(rs, docs) ==
    IF Len(docs) = 0 THEN rs
    ELSE IF docs[1].filename \in FileNames(rs) THEN AddUnseen(rs, Tail(docs))
    ELSE AddUnseen(Append(rs, docs[1]), Tail(docs))

priority(match_type) ==
    CASE match_type = "filename" -> 0
      [] match_type = "semantic" -> 1
      [] match_type = "keyword" -> 2
      [] OTHER -> 3

\* A sort that lists the greatest (priority, -score) first.
SortResults_Reversed(rs) ==
    LET keyed == [i \in 1..Len(rs) |->
                    [key |-> 0 - (priority(rs[i].match_type) * 11 + (10 - rs[i].score)), val |-> rs[i]]]
        sorted == StableSort(keyed)
    IN [i \in 1..Len(sorted) |-> sorted[i].val]

\* results.sort(key=lambda x: (priority, -score)): one integer per pair.
SortResults(rs) ==
    LET keyed == [i \in 1..Len(rs) |->
                    [key |-> priority(rs[i].match_type) * 11 + (10 - rs[i].score), val |-> rs[i]]]
        sorted == StableSort(keyed)
    IN [i \in 1..Len(sorted) |-> sorted[i].val]

\* failed: the store signals whose store call raised in this search
NoSignals == [name |-> <<>>, sem |-> <<>>, kw |-> <<>>, failed |-> {}]

\* A fallback test that always asks for the keyword scan.
FewResults_Always(rs) == TRUE

\* `if len(results) < 3`: results holds one entry per filename so far
FewResults(rs) == Len(rs) < 3

\* smart_search: the list returned, and what each signal it called gave.
smart_search(q, uid, lim, name_ok, sem_ok) ==
    IF ~connected
    THEN LET kw == keyword_search_in_files(q, lim)
         IN [results |-> kw, signals |-> [NoSignals EXCEPT !.kw = kw]]
    ELSE LET pattern == extract_filename_pattern(q)
             name_hits == IF Len(pattern) > 0 THEN filename_search(q, uid, lim * 2, name_ok) ELSE <<>>
             r1 == AddUnseen(<<>>, name_hits)
             semantic_results == semantic_search(q, uid, lim, sem_ok)
             r2 == AddUnseen(r1, semantic_results)
             keyword_results == IF FewResults(r2) THEN keyword_search_in_files(q, lim) ELSE <<>>
             r3 == AddUnseen(r2, keyword_results)
         IN [results |-> Take(SortResults(r3), lim),
             signals |-> [name |-> name_hits, sem |-> semantic_results, kw |-> keyword_results,
                         failed |-> (IF Len(pattern) > 0 /\ ~name_ok THEN {"name"} ELSE {})
                                    \cup (IF sem_ok THEN {} ELSE {"sem"})]]


\* ------------------------------------------------------------------
\* The searches of the model
\* ------------------------------------------------------------------
MaxStoreChunks == 2

Owners == {"u1", "u2"}

\* The store and the directory are drawn alike for both owners, so one
\* searching owner stands for either.
Searchers == {"u1"}

Limits == {1, 2}

SearchNames == {NameA, NameAb, NameB}

TextAaaa == <<"a", "a", "a", "a">>
TextBbb == <<"b", "b", "b">>

\* A chunk of the store; score is 1 - distance of the chunk to the query.
StoredChunks ==
    {[user_id |-> u, filename |-> f, chunk_index |-> 0, total_chunks |-> 1, score |-> sc,
      content |-> TextAaaa, is_table |-> f \in TableNames] :
        u \in Owners, f \in SearchNames, sc \in {4, 8}}

\* A file of the directory, or none, under one name. owner is who uploaded it.
DirEntries(name) ==
    {<<>>} \cup {<<[filename |-> name, owner |-> o, content |-> c]>> :
                    o \in Owners, c \in {TextAaaa, TextBbb}}

Directories == {a \o b : a \in DirEntries(NameA), b \in DirEntries(NameB)}

Queries == {<<SP, "A", "a", "a">>, <<"b", "b", "b">>}

NoContext == [by |-> "none", text |-> <<>>]

SearchInit ==
    /\ IndexUnused
    /\ OpsUnused
    /\ WordsUnused
    /\ text = <<>>
    /\ max_chars = 0
    /\ overlap = 0
    /\ chunked = FALSE
    /\ chunks_out = <<>>
    /\ s_docs \in SeqsUpTo(StoredChunks, MaxStoreChunks)
    /\ s_dir \in Directories
    /\ connected \in BOOLEAN
    /\ s_query \in Queries
    /\ s_user_id \in Searchers
    /\ s_limit \in Limits
    /\ searched = FALSE
    /\ signals = NoSignals
    /\ results = <<>>
    /\ context = NoContext
    /\ lookup = NoLookup

\* One call smart_search(query, user_id, limit) and its return.
SmartSearch(name_ok, sem_ok) ==
    /\ ~searched
    /\ LET r == smart_search(s_query, s_user_id, s_limit, name_ok, sem_ok)
       IN /\ results' = r.results
          /\ signals' = r.signals
    /\ searched' = TRUE
    /\ UNCHANGED <<s_docs, s_dir, connected, s_query, s_user_id, s_limit, context, lookup>>
    /\ UNCHANGED <<chunkVars, indexVars, opsVars, wordVars>>

SearchNext == \E name_ok, sem_ok \in BOOLEAN : SmartSearch(name_ok, sem_ok)

SpecSearch == SearchInit /\ [][SearchNext]_vars


\* ------------------------------------------------------------------
\* Properties of smart_search
\* ------------------------------------------------------------------
EntriesFor(f) == {i \in 1..Len(results) : results[i].filename = f}

\* The files the filename signal returned that the semantic signal or the
\* keyword fallback matched as well.
MatchedTwice == FileNames(signals.name) \cap (FileNames(signals.sem) \cup FileNames(signals.kw))

\* The files of the filename signal, each once, in the order it listed them.
NameOrder == AddUnseen(<<>>, signals.name)

\* C1: whatever smart_search(query, A) returns was taken from a document of
\* owner A, on the connected path and on the keyword-only path alike.
C1_OwnerIsolation ==
    searched => \A i \in 1..Len(results) : results[i].owner = s_user_id

\* C9 as stated: a file the filename signal returned, and that the semantic
\* signal or the keyword fallback matched too, has exactly one entry in the
\* result, and that entry is tagged 'filename'.
C9_ExactlyOneFilenameEntry ==
    searched =>
        \A f \in MatchedTwice :
            /\ Cardinality(EntriesFor(f)) = 1
            /\ \A i \in EntriesFor(f) : results[i].match_type = "filename"

\* C9 amended: such a file never has two entries nor an entry tagged otherwise
\* than 'filename'; it has its one entry exactly when it is among the first
\* limit distinct files of the filename signal, and none when the cut at
\* limit drops it.
C9_OneFilenameEntryWithinLimit ==
    searched =>
        \A f \in MatchedTwice :
            /\ \A i \in EntriesFor(f) : results[i].match_type = "filename"
            /\ Cardinality(EntriesFor(f)) =
                    IF f \in FileNames(Take(NameOrder, s_limit)) THEN 1 ELSE 0

\* A search where one doubly matched file keeps its single 'filename' entry
\* and another doubly matched file is cut off by the limit.
C9_Witness ==
    /\ searched
    /\ connected
    /\ \E f, g \in MatchedTwice :
          /\ Cardinality(EntriesFor(f)) = 1
          /\ EntriesFor(g) = {}
          /\ f \in FileNames(signals.sem)
          /\ g \in FileNames(signals.kw)

\* C10: the returned list has at most limit entries and no two entries with
\* the same filename, whether the store is connected or not.
C10_LimitAndDistinctFilenames ==
    searched =>
        /\ Len(results) <= s_limit
        /\ \A i, j \in 1..Len(results) : i # j => results[i].filename # results[j].filename


\* ======================================================================
\* Context assembly: get_rag_context (search_tool.py) and its caller
\* _build_rag_context (agent/agent.py)
\* ======================================================================

\* The per-document slices of get_rag_context (8000 and 800 characters in
\* the code), scaled to the model.
MAX_TABLE_CHARS == 3
MAX_DOC_CHARS == 2

ContextHeader == <<"H", NL>>             \* "=== КОНТЕКСТ ИЗ ДОКУМЕНТОВ ===\n"
TableCutMark == <<NL>> \o Dots \o <<"[">>   \* "\n...[таблица обрезана]"
DocCutMark == Dots                       \* "..."

\* "\n".join(parts)
RECURSIVE JoinNL(_)
JoinNL(parts) ==
    IF Len(parts) = 0 THEN <<>>
    ELSE IF Len(parts) = 1 THEN parts[1]
    ELSE parts[1] \o <<NL>> \o JoinNL(Tail(parts))

\* f"--- [{doc_type}] {doc['filename']}{chunk_info} {match_icon} ---\n{content}\n"
DocPart(doc, max_table_chars, max_doc_chars) ==
    LET doc_type == IF doc.is_table THEN "T" ELSE "D"
        match_icon == CASE doc.match_type = "filename" -> <<"F">>
                        [] doc.match_type = "semantic" -> <<"S">>
                        [] doc.match_type = "keyword" -> <<"K">>
                        [] OTHER -> <<>>
        chunk_info == IF doc.total_chunks > 1 THEN <<"#">> ELSE <<>>
        cap == IF doc.is_table THEN max_table_chars ELSE max_doc_chars
        mark == IF doc.is_table THEN TableCutMark ELSE DocCutMark
        content == Take(doc.content, cap) \o (IF Len(doc.content) > cap THEN mark ELSE <<>>)
    IN <<doc_type>> \o doc.filename \o chunk_info \o match_icon \o <<NL>> \o content \o <<NL>>

\* The body of get_rag_context once smart_search has returned rs.
FormatContext(rs, max_table_chars, max_doc_chars) ==
    IF Len(rs) = 0 THEN <<>>
    ELSE JoinNL(<<ContextHeader>> \o [i \in 1..Len(rs) |-> DocPart(rs[i], max_table_chars, max_doc_chars)])

\* get_rag_context(query, user_id, top_n, max_table_chars, max_doc_chars)
GetRagContext(name_ok, sem_ok) ==
    /\ ~searched
    /\ context.by = "none"
    /\ LET r == smart_search(s_query, s_user_id, s_limit, name_ok, sem_ok)
       IN /\ results' = r.results
          /\ signals' = r.signals
          /\ context' = [by |-> "get_rag_context",
                         text |-> FormatContext(r.results, MAX_TABLE_CHARS, MAX_DOC_CHARS)]
    /\ searched' = TRUE
    /\ UNCHANGED <<s_docs, s_dir, connected, s_query, s_user_id, s_limit, lookup>>
    /\ UNCHANGED <<chunkVars, indexVars, opsVars, wordVars>>

\* The parameters get_rag_context declares, and the keywords the agent
\* passes besides query and user_id.
GetRagContextParams == {"query", "user_id", "top_n", "max_table_chars", "max_doc_chars"}
AgentKeywords == {"top_n", "max_context_chars"}

\* The queries of the model are no requests for a summary of everything.
needs_full_context(q) == FALSE

\* _build_rag_context(query, user_id): nothing when the store is not
\* connected; a call that raises (a keyword get_rag_context does not
\* declare is a TypeError) is logged and answered with "" as well.
BuildRagContext(name_ok, sem_ok) ==
    /\ ~searched
    /\ context.by = "none"
    /\ IF ~connected \/ needs_full_context(s_query) \/ ~(AgentKeywords \subseteq GetRagContextParams)
       THEN /\ context' = [by |-> "_build_rag_context", text |-> <<>>]
            /\ UNCHANGED <<results, signals, searched>>
       ELSE LET r == smart_search(s_query, s_user_id, s_limit, name_ok, sem_ok)
            IN /\ results' = r.results
               /\ signals' = r.signals
               /\ searched' = TRUE
               /\ context' = [by |-> "_build_rag_context",
                              text |-> FormatContext(r.results, MAX_TABLE_CHARS, MAX_DOC_CHARS)]
    /\ UNCHANGED <<s_docs, s_dir, connected, s_query, s_user_id, s_limit, lookup>>
    /\ UNCHANGED <<chunkVars, indexVars, opsVars, wordVars>>

ContextNext ==
    \/ \E name_ok, sem_ok \in BOOLEAN : GetRagContext(name_ok, sem_ok)
    \/ \E name_ok, sem_ok \in BOOLEAN : BuildRagContext(name_ok, sem_ok)

SpecContext == SearchInit /\ [][ContextNext]_vars

\* The largest number of characters a caller of get_rag_context can ask for.
CharBudget == IF MAX_TABLE_CHARS > MAX_DOC_CHARS THEN MAX_TABLE_CHARS ELSE MAX_DOC_CHARS

\* C11: the block get_rag_context returns is never longer than the character
\* budget of the call plus one truncation marker.
C11_BudgetRespect ==
    context.by = "get_rag_context" => Len(context.text) <= CharBudget + Len(TableCutMark)

\* C12: with the store not connected a retrieval still returns the keyword
\* hits over the files it can read: smart_search returns them, and the
\* context built for the agent is not empty when there are such hits.
C12_DegradesToKeyword ==
    (~connected /\ context.by # "none") =>
        /\ context.by = "get_rag_context" => results = keyword_search_in_files(s_query, s_limit)
        /\ keyword_search_in_files(s_query, s_limit) # <<>> => context.text # <<>>


\* ======================================================================
\* A second indexing process: chunking_tool.py run as a script
\* (reindex_all(role): clear_user_data(role), then index_file for the files
\* of the role's folder), beside the calls of the server process. Neither
\* process takes a lock, and the store has no transactions.
\* ======================================================================

Roles == {OwnerOf(k) : k \in Keys}
\* the role the script is run for
CliRoles == {"u1"}
KeysOfRole(role) == {k \in Keys : OwnerOf(k) = role}

\* delete_many(where = user_id) on one collection
DeleteUser(bag, uid) ==
    LET keep == {r \in BagToSet(bag) : r.user_id # uid}
    IN  [r \in keep |-> bag[r]]

\* python chunking_tool.py <role>
CliStart(role) ==
    /\ cli.pc = "idle"
    /\ cli' = [pc |-> "clear", role |-> role]
    /\ UNCHANGED <<down, removal, userMemory, chatHistory, clearing, legacy_runs>>
    /\ UNCHANGED <<chunkVars, indexVars, searchVars, wordVars>>

\* reindex_all: vector_store.clear_user_data(role), no delete failing
CliClear ==
    /\ cli.pc = "clear"
    /\ documents' = DeleteUser(documents, cli.role)
    /\ fullDocs' = DeleteUser(fullDocs, cli.role)
    /\ userMemory' = DeleteUser(userMemory, cli.role)
    /\ chatHistory' = DeleteUser(chatHistory, cli.role)
    /\ cli' = [cli EXCEPT !.pc = "files"]
    /\ UNCHANGED <<files, call, last, nfail, down, removal, clearing, legacy_runs>>
    /\ UNCHANGED <<chunkVars, searchVars, wordVars>>

\* index_all_files: index_file(f, role) up to the call of add_full_document
CliBegin(k) ==
    /\ cli.pc = "files"
    /\ k \in KeysOfRole(cli.role)
    /\ LET content == ContentRead("index_file", k)
           is_table == IsTable("index_file", NameOf(k))
       IN  cli' = [pc |-> IF is_error_response(content) THEN "done" ELSE "exists",
                   role |-> cli.role, key |-> k, content |-> content,
                   doc_hash |-> _hash_content(content), is_table |-> is_table,
                   todo |-> ChunksToInsert("index_file", is_table, content), i |-> 1]
    /\ UNCHANGED <<down, removal, userMemory, chatHistory, clearing, legacy_runs>>
    /\ UNCHANGED <<chunkVars, indexVars, searchVars, wordVars>>

CliExists ==
    /\ cli.pc = "exists"
    /\ \E exists \in ExistsAnswers(fullDocs, NameOf(cli.key), OwnerOf(cli.key), cli.doc_hash) :
          cli' = [cli EXCEPT !.pc = IF exists THEN "done" ELSE "delfull"]
    /\ UNCHANGED <<down, removal, userMemory, chatHistory, clearing, legacy_runs>>
    /\ UNCHANGED <<chunkVars, indexVars, searchVars, wordVars>>

CliDeleteFull ==
    /\ cli.pc = "delfull"
    /\ fullDocs' = DeleteMany(fullDocs, OwnerOf(cli.key), NameOf(cli.key))
    /\ cli' = [cli EXCEPT !.pc = "insfull"]
    /\ UNCHANGED <<files, documents, call, last, nfail>>
    /\ UNCHANGED <<down, removal, userMemory, chatHistory, clearing, legacy_runs>>
    /\ UNCHANGED <<chunkVars, searchVars, wordVars>>

CliInsertFull ==
    /\ cli.pc = "insfull"
    /\ fullDocs' = Insert(fullDocs, FullRecord(OwnerOf(cli.key), NameOf(cli.key), cli.content))
    /\ cli' = [cli EXCEPT !.pc = "delchunks"]
    /\ UNCHANGED <<files, documents, call, last, nfail>>
    /\ UNCHANGED <<down, removal, userMemory, chatHistory, clearing, legacy_runs>>
    /\ UNCHANGED <<chunkVars, searchVars, wordVars>>

CliDeleteChunks ==
    /\ cli.pc = "delchunks"
    /\ documents' = DeleteMany(documents, OwnerOf(cli.key), NameOf(cli.key))
    /\ cli' = [cli EXCEPT !.pc = "inschunk"]
    /\ UNCHANGED <<files, fullDocs, call, last, nfail>>
    /\ UNCHANGED <<down, removal, userMemory, chatHistory, clearing, legacy_runs>>
    /\ UNCHANGED <<chunkVars, searchVars, wordVars>>

CliInsertChunk ==
    /\ cli.pc = "inschunk"
    /\ documents' = Insert(documents,
                           ChunkRecord(OwnerOf(cli.key), NameOf(cli.key), cli.doc_hash,
                                       cli.is_table, cli.todo[cli.i]))
    /\ cli' = IF cli.i = Len(cli.todo)
              THEN [cli EXCEPT !.pc = "done"]
              ELSE [cli EXCEPT !.i = @ + 1]
    /\ UNCHANGED <<files, fullDocs, call, last, nfail>>
    /\ UNCHANGED <<down, removal, userMemory, chatHistory, clearing, legacy_runs>>
    /\ UNCHANGED <<chunkVars, searchVars, wordVars>>

\* the script ends (each role's folder holds one file in the model)
CliReturn ==
    /\ cli.pc = "done"
    /\ cli' = [pc |-> "idle"]
    /\ UNCHANGED <<down, removal, userMemory, chatHistory, clearing, legacy_runs>>
    /\ UNCHANGED <<chunkVars, indexVars, searchVars, wordVars>>

\* Both processes, no store call failing.
TwoNext ==
    \/ \E k \in Keys, via \in {"index_file", "index_file_for_user"} : IndexBegin(k, via)
    \/ StepExists(TRUE)
    \/ StepDeleteFull(TRUE)
    \/ StepInsertFull(TRUE)
    \/ StepDeleteChunks(TRUE)
    \/ StepInsertChunk(TRUE)
    \/ IndexReturn
    \/ \E role \in CliRoles : CliStart(role)
    \/ CliClear
    \/ \E k \in Keys : CliBegin(k)
    \/ CliExists
    \/ CliDeleteFull
    \/ CliInsertFull
    \/ CliDeleteChunks
    \/ CliInsertChunk
    \/ CliReturn

SpecTwo == IndexInit /\ [][TwoNext]_vars

ServerInFlight(k) == call.pc \notin {"idle", "done"} /\ call.key = k
CliInFlight(k) == cli.pc \in {"exists", "delfull", "insfull", "delchunks", "inschunk"} /\ cli.key = k

\* The chunks stored for k are the chunk set of one indexing call: one
\* common total_chunks n and the indexes 0 .. n - 1, each stored once.
OneCallChunkSet(k) ==
    \/ ChunksOf(k) = {}
    \/ \E n \in 1..(MaxTextLen + 1) :
          /\ \A c \in ChunksOf(k) : c.total_chunks = n /\ documents[c] = 1
          /\ {c.chunk_index : c \in ChunksOf(k)} = 0..(n - 1)
          /\ Cardinality(ChunksOf(k)) = n

\* C13: at most one indexing call is in flight for an (owner, filename) at
\* any time, and when no call is in flight the chunks stored for it are the
\* chunk set of a single indexing call.
C13_SameKeySerialized ==
    \A k \in Keys :
        /\ ~(ServerInFlight(k) /\ CliInFlight(k))
        /\ (call.pc = "idle" /\ cli.pc = "idle") => OneCallChunkSet(k)


\* ======================================================================
\* The indexers that call add_document directly: the script
\* src/index_all_files.py and _index_file_to_vector_store of file_tool.py.
\* Both work on the files of the folder FILES_DIR names, under the user_id
\* they are given; a record's key is (user_id, filename) whatever the path.
\* ======================================================================

\* runs of these indexers in one behaviour
MaxLegacyRuns == 2

\* add_document's default for a doc_hash the caller does not pass ("")
NoDocHash == [md5 |-> <<"">>]

\* index_all_files.py reads a table through read_excel(filepath)
LegacyContent(k) ==
    IF NameOf(k).suffix \in {".xlsx", ".xls"} THEN <<"P">> \o files[k] ELSE files[k]

\* `not content or str(content).startswith(("Ошибка", "Файл"))`
LegacyError(content) == Len(content) = 0 \/ content[1] \in ErrorMarks

\* add_document(content, filename, filetype, user_id, {"source_path": ...}):
\* chunk_index 0, total_chunks 1, is_table False by default
LegacyRecord(k, content) ==
    ChunkRecord(OwnerOf(k), NameOf(k), NoDocHash, FALSE,
                [content |-> content, index |-> 0, total |-> 1])

RECURSIVE LegacyLoop(_, _)
LegacyLoop(ks, docs) ==
    IF ks = {} THEN docs
    ELSE LET k == CHOOSE x \in ks : TRUE
             content == LegacyContent(k)
         IN  LegacyLoop(ks \ {k},
                        IF LegacyError(content) THEN docs
                        ELSE Insert(docs, LegacyRecord(k, content)))

\* python index_all_files.py <user_id>
LegacyIndexAll(uid) ==
    /\ call.pc = "idle"
    /\ legacy_runs < MaxLegacyRuns
    /\ legacy_runs' = legacy_runs + 1
    /\ documents' = LegacyLoop(KeysOfRole(uid), documents)
    /\ UNCHANGED <<files, fullDocs, call, last, nfail>>
    /\ UNCHANGED <<cli, down, removal, userMemory, chatHistory, clearing>>
    /\ UNCHANGED <<chunkVars, searchVars, wordVars>>

\* _index_file_to_vector_store(filepath, user_id), content read by read_file
LegacyIndexFile(k) ==
    /\ call.pc = "idle"
    /\ legacy_runs < MaxLegacyRuns
    /\ legacy_runs' = legacy_runs + 1
    /\ documents' = IF Len(files[k]) > 0 /\ files[k][1] \notin ErrorMarks
                    THEN Insert(documents, LegacyRecord(k, files[k]))
                    ELSE documents
    /\ UNCHANGED <<files, fullDocs, call, last, nfail>>
    /\ UNCHANGED <<cli, down, removal, userMemory, chatHistory, clearing>>
    /\ UNCHANGED <<chunkVars, searchVars, wordVars>>

\* All the indexers, one call after another, no store call failing.
LegacyNext ==
    \/ \E k \in Keys, via \in {"index_file", "index_file_for_user"} : IndexBegin(k, via)
    \/ StepExists(TRUE)
    \/ StepDeleteFull(TRUE)
    \/ StepInsertFull(TRUE)
    \/ StepDeleteChunks(TRUE)
    \/ StepInsertChunk(TRUE)
    \/ IndexReturn
    \/ \E uid \in Roles : LegacyIndexAll(uid)
    \/ \E k \in Keys : LegacyIndexFile(k)

SpecLegacy == IndexInit /\ [][LegacyNext]_vars

\* the number of stored records of k that carry chunk_index i
CopiesOf(k, i) ==
    LET rs == {r \in ChunksOf(k) : r.chunk_index = i}
    IN  IF rs = {} THEN 0 ELSE BagCardinality([r \in rs |-> documents[r]])

\* C14: whatever indexers have run, one after another and with no store
\* call failing, no (owner, filename) holds a second copy of a chunk: every
\* insert of chunks is preceded, in its call, by the delete of the old ones.
C14_DeleteBeforeInsert ==
    \A k \in Keys : \A i \in 0..MaxTextLen : CopiesOf(k, i) <= 1


\* ======================================================================
\* Calls answered "skipped" (Spec)
\* ======================================================================

\* The chunks stored for k are one complete chunk set written for the
\* content whose hash is h.
CompleteChunkSet(k, h) ==
    /\ ChunksOf(k) # {}
    /\ OneCallChunkSet(k)
    /\ \A c \in ChunksOf(k) : c.doc_hash = h

\* C15: a call is answered "skipped" only when the chunk set stored for its
\* (owner, filename) is complete and of the content's hash; after a call
\* that left the chunk set incomplete or mixed, the next call rebuilds it.
C15_NoSkipOverBrokenChunkSet ==
    (call.pc = "done" /\ call.result.skipped) => CompleteChunkSet(call.key, call.doc_hash)


\* ======================================================================
\* Indexing while the store is unreachable: is_connected() is False or the
\* client raises, so add_full_document, _delete_chunks and add_document all
\* fail, each in its own way of reporting it.
\* ======================================================================

DownInit ==
    /\ files \in [Keys -> DocSet]
    /\ fullDocs = EmptyBag
    /\ documents = EmptyBag
    /\ call = IdleCall
    /\ last = NoLast
    /\ nfail = 0
    /\ text = <<>>
    /\ max_chars = 0
    /\ overlap = 0
    /\ chunked = FALSE
    /\ chunks_out = <<>>
    /\ SearchUnused
    /\ WordsUnused
    /\ cli = [pc |-> "idle"]
    /\ down = TRUE
    /\ userMemory = EmptyBag
    /\ chatHistory = EmptyBag
    /\ clearing = [pc |-> "idle"]
    /\ legacy_runs = 0
    /\ removal = NoRemoval

SpecDown == DownInit /\ [][Next]_vars

\* C16: a call made while the store is unreachable returns a failure
\* result, never "indexed" or "skipped", whatever the size of the document.
C16_UnreachableStoreReported ==
    (down /\ call.pc = "done") => Outcome(call.result) = "failed"


\* ======================================================================
\* clear_user_data(user_id): delete_many(user_id) on the four collections,
\* in one try block
\* ======================================================================

ClearOrder == <<"Document", "FullDocument", "UserMemory", "ChatHistory">>

MemoryRecord(uid) == [user_id |-> uid, fact |-> <<"a">>, category |-> "general"]
ChatRecord(uid) == [user_id |-> uid, message |-> <<"a">>, role |-> "user"]

\* what the collections may hold when clear_user_data is called: for every
\* owner, the records of one indexed file, one fact and one chat message
BagsOver(S) == {SetToBag(T) : T \in SUBSET S}

ClearInit ==
    /\ files = [k \in Keys |-> DocW]
    /\ fullDocs \in BagsOver({FullRecord(OwnerOf(k), NameOf(k), DocW) : k \in Keys})
    /\ documents \in BagsOver({ChunkRecord(OwnerOf(k), NameOf(k), _hash_content(DocW), FALSE,
                                           [content |-> DocW, index |-> 0, total |-> 1]) : k \in Keys})
    /\ userMemory \in BagsOver({MemoryRecord(u) : u \in Roles})
    /\ chatHistory \in BagsOver({ChatRecord(u) : u \in Roles})
    /\ call = IdleCall
    /\ last = NoLast
    /\ nfail = 0
    /\ text = <<>>
    /\ max_chars = 0
    /\ overlap = 0
    /\ chunked = FALSE
    /\ chunks_out = <<>>
    /\ SearchUnused
    /\ WordsUnused
    /\ cli = [pc |-> "idle"]
    /\ down = FALSE
    /\ clearing = [pc |-> "idle"]
    /\ legacy_runs = 0
    /\ removal = NoRemoval

\* the call, past `if not self.is_connected(): return`
ClearBegin(uid) ==
    /\ clearing.pc = "idle"
    /\ ~down
    /\ clearing' = [pc |-> "deleting", user_id |-> uid, i |-> 1, failed |-> FALSE,
                    before |-> [Document |-> documents, FullDocument |-> fullDocs,
                                UserMemory |-> userMemory, ChatHistory |-> chatHistory]]
    /\ UNCHANGED <<cli, down, removal, userMemory, chatHistory, legacy_runs>>
    /\ UNCHANGED <<chunkVars, indexVars, searchVars, wordVars>>

\* one pass of the for loop: delete_many on collection number i; an
\* exception leaves the loop for the except clause
ClearStep(ok) ==
    /\ clearing.pc = "deleting"
    /\ LET name == ClearOrder[clearing.i]
           uid == clearing.user_id
       IN  /\ documents' = IF ok /\ name = "Document" THEN DeleteUser(documents, uid) ELSE documents
           /\ fullDocs' = IF ok /\ name = "FullDocument" THEN DeleteUser(fullDocs, uid) ELSE fullDocs
           /\ userMemory' = IF ok /\ name = "UserMemory" THEN DeleteUser(userMemory, uid) ELSE userMemory
           /\ chatHistory' = IF ok /\ name = "ChatHistory" THEN DeleteUser(chatHistory, uid) ELSE chatHistory
    /\ clearing' = IF ~ok
                   THEN [clearing EXCEPT !.pc = "done", !.failed = TRUE]
                   ELSE IF clearing.i = Len(ClearOrder)
                   THEN [clearing EXCEPT !.pc = "done"]
                   ELSE [clearing EXCEPT !.i = @ + 1]
    /\ UNCHANGED <<files, call, last, nfail, cli, down, removal, legacy_runs>>
    /\ UNCHANGED <<chunkVars, searchVars, wordVars>>

\* the caller goes on
ClearReturn ==
    /\ clearing.pc = "done"
    /\ clearing' = [pc |-> "idle"]
    /\ UNCHANGED <<cli, down, removal, userMemory, chatHistory, legacy_runs>>
    /\ UNCHANGED <<chunkVars, indexVars, searchVars, wordVars>>

ClearNext ==
    \/ \E uid \in Roles : ClearBegin(uid)
    \/ \E ok \in BOOLEAN : ClearStep(ok)
    \/ ClearReturn

SpecClear == ClearInit /\ [][ClearNext]_vars

\* C17: when clear_user_data(owner) has returned with the store connected,
\* each of the four collections holds what it held before minus the records
\* of that owner: none of the owner's records, every other record untouched.
C17_OwnerDataWiped ==
    (clearing.pc = "done" /\ ~down) =>
        /\ documents = DeleteUser(clearing.before.Document, clearing.user_id)
        /\ fullDocs = DeleteUser(clearing.before.FullDocument, clearing.user_id)
        /\ userMemory = DeleteUser(clearing.before.UserMemory, clearing.user_id)
        /\ chatHistory = DeleteUser(clearing.before.ChatHistory, clearing.user_id)


\* ======================================================================
\* The storage scans, each a whole pass with no store call failing:
\* load_storage_files (api, index_file_for_user on every file of every user
\* folder) and index_all_files(role) (chunking_tool, index_file on every
\* file of the role's folder). A scan lists the files that exist.
\* ======================================================================

RECURSIVE InsertAll(_, _)
InsertAll(bag, rs) ==
    IF rs = <<>> THEN bag ELSE InsertAll(Insert(bag, Head(rs)), Tail(rs))

\* One indexing call on file k, all its store calls going through, as a
\* function of the two collections st; exists is document_exists's answer.
IndexEffect(via, k, st, exists) ==
    LET content == ContentRead(via, k)
        is_table == IsTable(via, NameOf(k))
        todo == ChunksToInsert(via, is_table, content)
    IN  IF via = "index_file" /\ is_error_response(content) THEN st
        ELSE IF exists THEN st
        ELSE [fullDocs |-> Insert(DeleteMany(st.fullDocs, OwnerOf(k), NameOf(k)),
                                  FullRecord(OwnerOf(k), NameOf(k), content)),
              documents |-> InsertAll(DeleteMany(st.documents, OwnerOf(k), NameOf(k)),
                                      [j \in 1..Len(todo) |->
                                          ChunkRecord(OwnerOf(k), NameOf(k), _hash_content(content),
                                                      is_table, todo[j])])]

RECURSIVE ScanLoop(_, _, _, _)
ScanLoop(via, ks, st, ex) ==
    IF ks = {} THEN st
    ELSE LET k == CHOOSE x \in ks : TRUE
         IN  ScanLoop(via, ks \ {k}, IndexEffect(via, k, st, ex[k]), ex)

\* the files a scan finds in the folders it lists
Present(ks) == {k \in ks : removal[k] = "present"}

\* A scan over the folders holding ks. ex gives document_exists's answer
\* for each file (calls on different files do not see each other's
\* records); the removed files of these folders have now been scanned over.
Scan(via, ks) ==
    /\ call.pc = "idle"
    /\ \E ex \in [Keys -> BOOLEAN] :
          /\ \A k \in Keys :
                IF k \in Present(ks)
                THEN ex[k] \in ExistsAnswers(fullDocs, NameOf(k), OwnerOf(k),
                                             _hash_content(ContentRead(via, k)))
                ELSE ex[k] = FALSE
          /\ LET st == ScanLoop(via, Present(ks), [fullDocs |-> fullDocs, documents |-> documents], ex)
             IN  /\ fullDocs' = st.fullDocs
                 /\ documents' = st.documents
    /\ removal' = [k \in Keys |-> IF k \in ks /\ removal[k] = "removed" THEN "scanned" ELSE removal[k]]
    /\ UNCHANGED <<files, call, last, nfail>>
    /\ UNCHANGED <<cli, down, userMemory, chatHistory, clearing, legacy_runs>>
    /\ UNCHANGED <<chunkVars, searchVars, wordVars>>

\* load_storage_files(): periodic_task, startup
LoadStorageFiles == Scan("index_file_for_user", Keys)

\* chunking_tool.index_all_files(role)
IndexAllFiles(role) == Scan("index_file", KeysOfRole(role))

\* the owner's file is deleted from the storage folder
RemoveFile(k) ==
    /\ call.pc = "idle"
    /\ removal[k] = "present"
    /\ removal' = [removal EXCEPT ![k] = "removed"]
    /\ UNCHANGED <<cli, down, userMemory, chatHistory, clearing, legacy_runs>>
    /\ UNCHANGED <<chunkVars, indexVars, searchVars, wordVars>>

ScanNext ==
    \/ \E k \in Keys, c \in DocSet : removal[k] = "present" /\ EditFile(k, c)
    \/ LoadStorageFiles
    \/ \E role \in Roles : IndexAllFiles(role)
    \/ \E k \in Keys : RemoveFile(k)

SpecScan == IndexInit /\ [][ScanNext]_vars

\* C18: once a file has been removed from the storage folder and a storage
\* scan has completed since, the index holds neither a full-document record
\* nor a chunk of that (owner, filename).
C18_RemovedFileLeavesIndex ==
    \A k \in Keys : removal[k] = "scanned" => (FullsOf(k) = {} /\ ChunksOf(k) = {})


\* ======================================================================
\* Size of the chunks of chunk_text_semantic (SpecChunk)
\* ======================================================================

\* C19: every chunk chunk_text_semantic returns is at most max_chars
\* characters long.
C19_ChunkSizeBound ==
    chunked => \A i \in 1..Len(chunks_out) : Len(chunks_out[i].content) <= max_chars


\* ======================================================================
\* chunk_text_with_overlap(text, max_words, overlap_words) on its own
\* ======================================================================

MaxWordTextLen == 7
MaxWindow == 3

WordAlphabet == {"a", "b", SP}
WordTexts == SeqsUpTo(WordAlphabet, MaxWordTextLen)

\* overlap_words < max_words: the loop's step is positive
WordsInit ==
    /\ w_text \in WordTexts
    /\ w_max_words \in 1..MaxWindow
    /\ w_overlap_words \in 0..(w_max_words - 1)
    /\ windowed = FALSE
    /\ windows = <<>>
    /\ LateUnused
    /\ text = <<>>
    /\ max_chars = 0
    /\ overlap = 0
    /\ chunked = FALSE
    /\ chunks_out = <<>>
    /\ IndexUnused
    /\ SearchUnused
    /\ OpsUnused

ApplyWindows ==
    /\ ~windowed
    /\ windowed' = TRUE
    /\ windows' = chunk_text_with_overlap(w_text, w_max_words, w_overlap_words)
    /\ UNCHANGED <<w_text, w_max_words, w_overlap_words, lateVars>>
    /\ UNCHANGED <<chunkVars, indexVars, searchVars, opsVars>>

WordsNext == ApplyWindows

SpecWords == WordsInit /\ [][WordsNext]_vars

\* the words window number k (from 0) is to hold
WindowWords(ws, k, max_words, overlap_words) ==
    SubSeq(ws, k * (max_words - overlap_words) + 1,
           Min(k * (max_words - overlap_words) + max_words, Len(ws)))

\* C20: for a text of more than max_words words (overlap_words < max_words)
\* chunk_text_with_overlap returns finitely many windows, one per step of
\* max_words - overlap_words words; window k holds the words from word
\* k * (max_words - overlap_words) on, at most max_words of them, in the
\* order of the text, and every word of the text lies in some window.
C20_WordWindows ==
    (windowed /\ Len(Words(w_text)) > w_max_words) =>
        LET ws == Words(w_text)
            n == Len(ws)
            step == w_max_words - w_overlap_words
            cnt == (n + step - 1) \div step
        IN  /\ Len(windows) = cnt
            /\ \A k \in 0..(cnt - 1) :
                  /\ Words(windows[k + 1]) = WindowWords(ws, k, w_max_words, w_overlap_words)
                  /\ Len(Words(windows[k + 1])) <= w_max_words
                  /\ Len(Words(windows[k + 1])) >= 1
            /\ \A j \in 1..n :
                  \E k \in 0..(cnt - 1) :
                     \E q \in 1..Len(Words(windows[k + 1])) :
                        /\ k * step + q = j
                        /\ Words(windows[k + 1])[q] = ws[j]

\* a text of four words cut into overlapping windows of two
C20_Witness ==
    /\ windowed
    /\ Len(Words(w_text)) > w_max_words
    /\ w_overlap_words > 0
    /\ Len(windows) >= 3
    /\ \E i \in 1..Len(Words(w_text)) : Words(w_text)[i] # Words(w_text)[1]


\* ======================================================================
\* smart_search over a store of one owner whose chunks all pass the score
\* floor, with room for three results (SpecRank)
\* ======================================================================

MaxRankChunks == 3

RankLimits == {2, 3}

\* chunks of the searching owner, nearer (8) and farther (6) from the query
RankChunks ==
    {[user_id |-> u, filename |-> f, chunk_index |-> 0, total_chunks |-> 1, score |-> sc,
      content |-> TextAaaa, is_table |-> f \in TableNames] :
        u \in Searchers, f \in SearchNames, sc \in {6, 8}}

RankDirEntries(name) ==
    {<<>>} \cup {<<[filename |-> name, owner |-> o, content |-> c]>> :
                    o \in Searchers, c \in {TextAaaa, TextBbb}}

RankDirectories == {a \o b : a \in RankDirEntries(NameA), b \in RankDirEntries(NameB)}

RankInit ==
    /\ IndexUnused
    /\ OpsUnused
    /\ WordsUnused
    /\ text = <<>>
    /\ max_chars = 0
    /\ overlap = 0
    /\ chunked = FALSE
    /\ chunks_out = <<>>
    /\ s_docs \in SeqsUpTo(RankChunks, MaxRankChunks)
    /\ s_dir \in RankDirectories
    /\ connected \in BOOLEAN
    /\ s_query \in Queries
    /\ s_user_id \in Searchers
    /\ s_limit \in RankLimits
    /\ searched = FALSE
    /\ signals = NoSignals
    /\ results = <<>>
    /\ context = NoContext
    /\ lookup = NoLookup

SpecRank == RankInit /\ [][SearchNext]_vars

\* C21: the list smart_search returns is ordered by signal priority
\* (filename, then semantic, then keyword) and, within one signal, by score
\* from high to low.
C21_RankingOrder ==
    searched =>
        \A i, j \in 1..Len(results) :
            i < j =>
                /\ priority(results[i].match_type) <= priority(results[j].match_type)
                /\ results[i].match_type = results[j].match_type
                      => results[i].score >= results[j].score

\* all three signals in one answer, or two semantic entries of unlike scores
C21_Witness ==
    /\ searched
    /\ Len(results) = 3
    /\ \/ {results[i].match_type : i \in 1..3} = {"filename", "semantic", "keyword"}
       \/ \E i \in 1..2 : /\ results[i].match_type = "semantic"
                          /\ results[i + 1].match_type = "semantic"
                          /\ results[i].score > results[i + 1].score


\* the entries of the answer that carry the keyword tag
KeywordEntries == {i \in 1..Len(results) : results[i].match_type = "keyword"}

\* the files the filename and the semantic signal returned, each counted once
StoreFileNames == FileNames(signals.name) \cup FileNames(signals.sem)

\* C22 as stated: with the store connected, when the filename and the
\* semantic signal return three candidates or more between them, the
\* keyword scan contributes nothing and no keyword entry is returned.
C22_NoKeywordFromThreeCandidates ==
    (searched /\ connected /\ Len(signals.name) + Len(signals.sem) >= 3) =>
        (signals.kw = <<>> /\ KeywordEntries = {})

\* C22, by distinct filenames: with the store connected, when the filename
\* and the semantic signal return three distinct filenames or more the
\* keyword scan contributes nothing and no keyword entry is returned; when
\* they return fewer, the keyword scan is the one of keyword_search_in_files.
C22_NoKeywordFromThreeFiles ==
    (searched /\ connected) =>
        IF Cardinality(StoreFileNames) >= 3
        THEN signals.kw = <<>> /\ KeywordEntries = {}
        ELSE signals.kw = keyword_search_in_files(s_query, s_limit)

\* three files from the store, and a file the keyword scan would have found
C22_Witness ==
    /\ searched
    /\ connected
    /\ Cardinality(StoreFileNames) >= 3
    /\ keyword_search_in_files(s_query, s_limit) # <<>>
    /\ signals.kw = <<>>


\* C23: with the store connected, a store signal whose call raised counts
\* as having returned nothing, the other signals are run as they would be
\* without the failure, and the call returns the list merged from what the
\* signals gave.
C23_SignalFailureIsolated ==
    (searched /\ connected) =>
        LET pattern == extract_filename_pattern(s_query)
            merged == AddUnseen(AddUnseen(AddUnseen(<<>>, signals.name), signals.sem), signals.kw)
        IN  /\ "name" \in signals.failed => signals.name = <<>>
            /\ "sem" \in signals.failed => signals.sem = <<>>
            /\ ("name" \notin signals.failed /\ Len(pattern) > 0)
                  => signals.name = search_by_filename(pattern, s_user_id, s_limit * 2)
            /\ "sem" \notin signals.failed => signals.sem = search_documents(s_user_id, s_limit)
            /\ Len(AddUnseen(AddUnseen(<<>>, signals.name), signals.sem)) < 3
                  => signals.kw = keyword_search_in_files(s_query, s_limit)
            /\ results = Take(SortResults(merged), s_limit)

\* one store signal failed although the store had something for it, and the
\* answer carries what the other signals found
C23_Witness ==
    /\ searched
    /\ connected
    /\ \/ /\ signals.failed = {"name"}
          /\ search_by_filename(extract_filename_pattern(s_query), s_user_id, s_limit * 2) # <<>>
          /\ \E i \in 1..Len(results) : results[i].match_type = "semantic"
       \/ /\ signals.failed = {"sem"}
          /\ search_documents(s_user_id, s_limit) # <<>>
          /\ \E i \in 1..Len(results) : results[i].match_type = "filename"


\* ======================================================================
\* smart_search taken one store query at a time (SpecBlock). The signals
\* are called one after the other, each a plain call of the store client;
\* the code sets no timeout and starts no second thread. A query the store
\* never answers ends only if the client gives the call up by itself.
\* ======================================================================

MaxBlockChunks == 2

BlockInit ==
    /\ IndexUnused
    /\ OpsUnused
    /\ WordsUnused
    /\ text = <<>>
    /\ max_chars = 0
    /\ overlap = 0
    /\ chunked = FALSE
    /\ chunks_out = <<>>
    /\ s_docs \in SeqsUpTo(RankChunks, MaxBlockChunks)
    /\ s_dir \in RankDirectories
    /\ connected \in BOOLEAN
    /\ s_query \in Queries
    /\ s_user_id \in Searchers
    /\ s_limit \in RankLimits
    /\ searched = FALSE
    /\ signals = NoSignals
    /\ results = <<>>
    /\ context = NoContext
    /\ lookup \in {[pc |-> "idle", silent |-> x] : x \in {"none", "name", "sem"}}

\* smart_search is entered: is_connected(), extract_filename_pattern
LookupBegin ==
    /\ lookup.pc = "idle"
    /\ ~searched
    /\ lookup' = [lookup EXCEPT !.pc = IF ~connected THEN "kw"
                                       ELSE IF Len(extract_filename_pattern(s_query)) > 0 THEN "name"
                                       ELSE "sem"]
    /\ UNCHANGED <<s_docs, s_dir, connected, s_query, s_user_id, s_limit, searched, signals, results, context>>
    /\ UNCHANGED <<chunkVars, indexVars, opsVars, wordVars>>

\* filename_search returns: the store answered, or its call raised at once
NameAnswers(ok) ==
    /\ lookup.pc = "name"
    /\ lookup.silent # "name"
    /\ signals' = [signals EXCEPT !.name = filename_search(s_query, s_user_id, s_limit * 2, ok),
                                  !.failed = IF ok THEN @ ELSE @ \cup {"name"}]
    /\ lookup' = [lookup EXCEPT !.pc = "sem"]
    /\ UNCHANGED <<s_docs, s_dir, connected, s_query, s_user_id, s_limit, searched, results, context>>
    /\ UNCHANGED <<chunkVars, indexVars, opsVars, wordVars>>

\* semantic_search returns
SemAnswers(ok) ==
    /\ lookup.pc = "sem"
    /\ lookup.silent # "sem"
    /\ signals' = [signals EXCEPT !.sem = semantic_search(s_query, s_user_id, s_limit, ok),
                                  !.failed = IF ok THEN @ ELSE @ \cup {"sem"}]
    /\ lookup' = [lookup EXCEPT !.pc = "kw"]
    /\ UNCHANGED <<s_docs, s_dir, connected, s_query, s_user_id, s_limit, searched, results, context>>
    /\ UNCHANGED <<chunkVars, indexVars, opsVars, wordVars>>

\* The client library ends the unanswered call with an exception of its
\* own; the signal logs it and returns []. Nothing in the code asks for it.
ClientGivesUp ==
    /\ lookup.pc \in {"name", "sem"}
    /\ lookup.silent = lookup.pc
    /\ signals' = [signals EXCEPT !.failed = @ \cup {lookup.pc}]
    /\ lookup' = [lookup EXCEPT !.pc = IF lookup.pc = "name" THEN "sem" ELSE "kw"]
    /\ UNCHANGED <<s_docs, s_dir, connected, s_query, s_user_id, s_limit, searched, results, context>>
    /\ UNCHANGED <<chunkVars, indexVars, opsVars, wordVars>>

\* the keyword scan where it is due, the sort, results[:limit], return
KeywordAndReturn ==
    /\ lookup.pc = "kw"
    /\ LET r2 == AddUnseen(AddUnseen(<<>>, signals.name), signals.sem)
           kw == IF ~connected \/ FewResults(r2) THEN keyword_search_in_files(s_query, s_limit) ELSE <<>>
       IN  /\ signals' = [signals EXCEPT !.kw = kw]
           /\ results' = IF ~connected THEN kw
                         ELSE Take(SortResults(AddUnseen(r2, kw)), s_limit)
    /\ searched' = TRUE
    /\ lookup' = [lookup EXCEPT !.pc = "returned"]
    /\ UNCHANGED <<s_docs, s_dir, connected, s_query, s_user_id, s_limit, context>>
    /\ UNCHANGED <<chunkVars, indexVars, opsVars, wordVars>>

BlockNext ==
    \/ LookupBegin
    \/ \E ok \in BOOLEAN : NameAnswers(ok)
    \/ \E ok \in BOOLEAN : SemAnswers(ok)
    \/ ClientGivesUp
    \/ KeywordAndReturn

\* The interpreter runs the call on, and a store that answers does answer;
\* the code gives no ground to expect the client to give a call up.
BlockFair ==
    /\ WF_vars(LookupBegin)
    /\ WF_vars(\E ok \in BOOLEAN : NameAnswers(ok))
    /\ WF_vars(\E ok \in BOOLEAN : SemAnswers(ok))
    /\ WF_vars(KeywordAndReturn)

SpecBlock == BlockInit /\ [][BlockNext]_vars /\ BlockFair

-----------------------------------------------------------------------------
(* Worksheets: _detect_headers and read_excel_structured (excel_tool.py) *)

MaxSheetRows == 3
\* rows[:5] in the code; scaled to the sheets of this universe
HEADER_SCAN_ROWS == 2
SheetWidth == 2

\* a formatted cell: empty, a word, an integer, a dash, a decimal
CellValues == {<<>>, <<"a">>, <<"1">>, <<"-">>, <<"1", ".", "5">>}
SheetRows == [1..SheetWidth -> CellValues]

\* c.replace(".", "").replace(",", "").replace("-", "")
StripPunct(c) == SelectSeq(c, LAMBDA ch : ch \notin {".", ",", "-"})
\* str.isdigit(): at least one character and every character a digit
IsDigit(c) == Len(c) > 0 /\ \A i \in 1..Len(c) : c[i] \in {"0", "1", "2", "3", "4", "5", "6", "7", "8", "9"}

\* [c for c in row if c]
NonEmpty(row) == SelectSeq(row, LAMBDA c : Len(c) > 0)
\* sum(1 for c in non_empty if not c.replace(...).isdigit())
HasText(row) == Len(SelectSeq(NonEmpty(row), LAMBDA c : ~IsDigit(StripPunct(c))))

\* the result "no header": (None, 0)
NoHeader == [headers |-> <<>>, header_idx |-> 0]

RECURSIVE DetectLoop(_, _)
DetectLoop(rows, idx) ==
    IF idx >= Min(Len(rows), HEADER_SCAN_ROWS) THEN NoHeader
    ELSE LET row == rows[idx + 1] IN
         IF Len(NonEmpty(row)) >= 2 /\ HasText(row) * 2 >= Len(NonEmpty(row))
         THEN [headers |-> row, header_idx |-> idx]
         ELSE DetectLoop(rows, idx + 1)

_detect_headers(rows) == DetectLoop(rows, 0)

\* the rows of a sheet that hold at least one non-empty cell
AllRows(sh) == SelectSeq(sh, LAMBDA row : Len(NonEmpty(row)) > 0)

\* headers with an empty name replaced by col_<i>
CleanHeaders(headers) == [i \in 1..Len(headers) |-> IF Len(headers[i]) > 0 THEN headers[i] ELSE <<"col", i - 1>>]

\* _to_markdown_table: the header line, the rule, one line per data row
MarkdownTable(headers, data_rows) ==
    <<[kind |-> "thead", cells |-> CleanHeaders(headers)], [kind |-> "rule", cells |-> <<>>]>>
    \o [i \in 1..Len(data_rows) |-> [kind |-> "trow", cells |-> [j \in 1..Len(headers) |-> data_rows[i][j]]]]

\* the content parts read_excel_structured appends for one worksheet
SheetContent(sh) ==
    LET all_rows == AllRows(sh)
        d == _detect_headers(all_rows)
        has == Len(d.headers) > 0
        data_rows == IF has THEN SubSeq(all_rows, d.header_idx + 2, Len(all_rows)) ELSE all_rows
        preamble == [i \in 1..d.header_idx |-> [kind |-> "bold", cells |-> NonEmpty(all_rows[i])]]
    IN  IF Len(all_rows) = 0 THEN <<>>
        ELSE <<[kind |-> "sheet", cells |-> <<>>]>> \o preamble \o
             (IF has THEN MarkdownTable(d.headers, data_rows)
              ELSE [i \in 1..Len(all_rows) |-> [kind |-> "flat", cells |-> NonEmpty(all_rows[i])]])

SheetInit ==
    /\ sheet \in SeqsUpTo(SheetRows, MaxSheetRows)
    /\ rendered = NoRender
    /\ BatchUnused
    /\ UploadUnused
    /\ LlmUnused
    /\ w_text = <<>>
    /\ w_max_words = 0
    /\ w_overlap_words = 0
    /\ windowed = FALSE
    /\ windows = <<>>
    /\ text = <<>>
    /\ max_chars = 0
    /\ overlap = 0
    /\ chunked = FALSE
    /\ chunks_out = <<>>
    /\ IndexUnused
    /\ SearchUnused
    /\ OpsUnused

ReadExcelStructured ==
    /\ ~rendered.done
    /\ LET d == _detect_headers(AllRows(sheet)) IN
       rendered' = [done |-> TRUE, headers |-> d.headers, header_idx |-> d.header_idx,
                    content |-> SheetContent(sheet)]
    /\ UNCHANGED <<sheet, batch, upload, llm>>
    /\ UNCHANGED <<w_text, w_max_words, w_overlap_words, windowed, windows>>
    /\ UNCHANGED <<chunkVars, indexVars, searchVars, opsVars>>

SheetNext == ReadExcelStructured

SpecSheet == SheetInit /\ [][SheetNext]_vars

\* the rows a header may be taken from: within the scan window, with at least
\* two non-empty cells
Candidates(rows) == {i \in 1..Min(Len(rows), HEADER_SCAN_ROWS) : Len(NonEmpty(rows[i])) >= 2}

\* row i has at least the ratio of non-numeric to non-empty cells of row j
RatioGeq(rows, i, j) ==
    HasText(rows[i]) * Len(NonEmpty(rows[j])) >= HasText(rows[j]) * Len(NonEmpty(rows[i]))

\* C25: among the first rows of a sheet that have at least two non-empty
\* cells the header is the row with the highest ratio of non-numeric cells to
\* non-empty cells; when no row qualifies there is no header and every row of
\* the sheet is emitted as a flat line.
C25_HeaderIsBestRow ==
    rendered.done =>
        LET rows == AllRows(sheet)
            cand == Candidates(rows)
        IN  IF cand = {}
            THEN /\ rendered.headers = <<>>
                 /\ Len(rows) > 0 => rendered.content =
                        <<[kind |-> "sheet", cells |-> <<>>]>> \o
                        [i \in 1..Len(rows) |-> [kind |-> "flat", cells |-> NonEmpty(rows[i])]]
            ELSE /\ rendered.headers # <<>>
                 /\ rendered.header_idx + 1 \in cand
                 /\ rendered.headers = rows[rendered.header_idx + 1]
                 /\ \A j \in cand : RatioGeq(rows, rendered.header_idx + 1, j)

-----------------------------------------------------------------------------
(* A batch run: chunking_tool.index_all_files(role) over the role folder *)

FileBin == [stem |-> "x", suffix |-> ".bin"]
BatchRole == "u1"
BatchKeys == {<<BatchRole, FileTxt>>, <<BatchRole, FileXls>>, <<BatchRole, FileBin>>}

\* supported = {".txt", ".pdf", ".docx", ".xlsx", ".xls", ".md", ".csv", ".log"}
Supported == {".txt", ".pdf", ".docx", ".xlsx", ".xls", ".md", ".csv", ".log"}

\* what the reader may find in a file: two documents, and nothing it can read
BatchDocs == DocSet \cup {<<>>}

\* the orders in which iterdir() can list the files ks
Listings(ks) == {o \in SeqsUpTo(ks, Cardinality(ks)) : Len(o) = Cardinality(ks) /\ {o[i] : i \in 1..Len(o)} = ks}

\* the store before the run: empty, or as an earlier run over the folder
\* with contents f left it
EarlierRun(f) ==
    LET ks == {k \in BatchKeys : NameOf(k).suffix \in Supported /\ ~is_error_response(f[k])}
        recs(k) == LET todo == ChunksToInsert("index_file", IsTable("index_file", NameOf(k)), f[k])
                   IN  [j \in 1..Len(todo) |->
                           ChunkRecord(OwnerOf(k), NameOf(k), _hash_content(f[k]),
                                       IsTable("index_file", NameOf(k)), todo[j])]
    IN  [fullDocs |-> SetToBag({FullRecord(OwnerOf(k), NameOf(k), f[k]) : k \in ks}),
         documents |-> SetToBag(UNION {{recs(k)[j] : j \in 1..Len(recs(k))} : k \in ks})]

BatchInit ==
    /\ files \in {f \in [BatchKeys -> BatchDocs] : f[<<BatchRole, FileBin>>] = DocW}
    /\ \E st \in {[fullDocs |-> EmptyBag, documents |-> EmptyBag]}
                 \cup {EarlierRun(f) : f \in [BatchKeys -> {DocW}]} :
          fullDocs = st.fullDocs /\ documents = st.documents
    /\ call = IdleCall
    /\ last = NoLast
    /\ nfail = 0
    /\ batch = [pc |-> "idle"]
    /\ removal = [k \in BatchKeys |-> "present"]
    /\ cli = [pc |-> "idle"]
    /\ down = FALSE
    /\ userMemory = EmptyBag
    /\ chatHistory = EmptyBag
    /\ clearing = [pc |-> "idle"]
    /\ legacy_runs = 0
    /\ SheetUnused
    /\ UploadUnused
    /\ LlmUnused
    /\ w_text = <<>>
    /\ w_max_words = 0
    /\ w_overlap_words = 0
    /\ windowed = FALSE
    /\ windows = <<>>
    /\ text = <<>>
    /\ max_chars = 0
    /\ overlap = 0
    /\ chunked = FALSE
    /\ chunks_out = <<>>
    /\ SearchUnused

BatchRest ==
    /\ UNCHANGED <<sheet, rendered, upload, llm>>
    /\ UNCHANGED <<w_text, w_max_words, w_overlap_words, windowed, windows>>
    /\ UNCHANGED <<chunkVars, searchVars, opsVars>>

\* index_all_files up to the loop: the folder is listed once, the files with
\* a supported suffix are kept, the three counters start at 0
BatchBegin ==
    /\ batch.pc = "idle"
    /\ \E o \in Listings({k \in BatchKeys : removal[k] = "present" /\ NameOf(k).suffix \in Supported}) :
          batch' = [pc |-> IF Len(o) = 0 THEN "done" ELSE "loop", files |-> o, i |-> 1,
                    success |-> 0, skipped |-> 0, errors |-> 0,
                    attempts |-> [k \in BatchKeys |-> 0]]
    /\ UNCHANGED indexVars
    /\ BatchRest

\* result = index_file(f, role): a file that is no longer there makes
\* index_file return its failure at once
BatchCall ==
    /\ batch.pc = "loop"
    /\ call.pc = "idle"
    /\ LET k == batch.files[batch.i] IN
          /\ call' = IF removal[k] = "present" THEN BegunCall(k, "index_file")
                     ELSE [BegunCall(k, "index_file") EXCEPT !.pc = "done", !.todo = <<>>]
          /\ batch' = [batch EXCEPT !.pc = "calling", !.attempts[k] = @ + 1]
    /\ UNCHANGED <<files, fullDocs, documents, last, nfail>>
    /\ BatchRest

\* The run's three counters with nothing counted for a failure.
Tally_NoErrors(b, outcome) ==
    IF outcome = "skipped" THEN [b EXCEPT !.skipped = @ + 1]
    ELSE IF outcome = "indexed" THEN [b EXCEPT !.success = @ + 1]
    ELSE b

\* if result.get("skipped") ... elif result.get("success") ... else ...
Tally(b, outcome) ==
    IF outcome = "skipped" THEN [b EXCEPT !.skipped = @ + 1]
    ELSE IF outcome = "indexed" THEN [b EXCEPT !.success = @ + 1]
    ELSE [b EXCEPT !.errors = @ + 1]

\* the loop body after the call has returned, and the step to the next file
BatchTally ==
    /\ batch.pc = "calling"
    /\ call.pc = "idle"
    /\ batch' = [Tally(batch, last.outcome) EXCEPT
                    !.i = @ + 1,
                    !.pc = IF batch.i = Len(batch.files) THEN "done" ELSE "loop"]
    /\ UNCHANGED indexVars
    /\ BatchRest

\* a file of the folder is deleted while the run goes on
BatchRemoveFile(k) ==
    /\ batch.pc \in {"loop", "calling"}
    /\ RemoveFile(k)

BatchNext ==
    \/ BatchBegin
    \/ BatchCall
    \/ \E ok \in BOOLEAN : StepExists(ok)
    \/ \E ok \in BOOLEAN : StepDeleteFull(ok)
    \/ \E ok \in BOOLEAN : StepInsertFull(ok)
    \/ \E ok \in BOOLEAN : StepDeleteChunks(ok)
    \/ \E ok \in BOOLEAN : StepInsertChunk(ok)
    \/ IndexReturn
    \/ BatchTally
    \/ \E k \in BatchKeys : BatchRemoveFile(k)

SpecBatch == BatchInit /\ [][BatchNext]_vars

\* C26: a file that cannot be read or indexed does not stop the run: every
\* supported file of the folder is handed to index_file exactly once and is
\* counted as exactly one of new, skipped or error, so that at the end of
\* the run new + skipped + errors is the number of files.
C26_EveryFileCountedOnce ==
    batch.pc # "idle" =>
        LET listed == {batch.files[j] : j \in 1..Len(batch.files)}
            dealt == batch.i - 1
        IN  /\ batch.success + batch.skipped + batch.errors = dealt
            /\ \A j \in 1..Len(batch.files) :
                  batch.attempts[batch.files[j]] =
                      IF j <= dealt \/ (j = batch.i /\ batch.pc = "calling") THEN 1 ELSE 0
            /\ \A k \in BatchKeys \ listed : batch.attempts[k] = 0
            /\ batch.pc = "done" => dealt = Len(batch.files)

\* a run of two files whose first file could not be read and was counted as
\* an error, and whose second file was indexed
C26_Witness ==
    /\ batch.pc = "done"
    /\ Len(batch.files) = 2
    /\ files[batch.files[1]] = <<>>
    /\ batch.errors = 1
    /\ batch.success = 1
    /\ documents # EmptyBag

-----------------------------------------------------------------------------
(* Uploads: upload_file, save_and_index_file and the storage scans *)

DEFAULT_USER_ID == "default"

\* the users that log in, and the owners the store can hold records of
Uploaders == {"u1", "u2"}
UploadOwners == Uploaders \cup {DEFAULT_USER_ID}

\* STORAGE_DIR / filename: a file directly under the storage folder. A scan
\* takes the owner of a file from the folder that holds it, and for a file
\* directly under storage/ it takes DEFAULT_USER_ID; the first component of
\* a key is that owner.
RootKey(filename) == <<DEFAULT_USER_ID, filename>>
UploadNames == {FileTxt, FileXls}
UploadKeys == Keys \cup {RootKey(n) : n \in UploadNames}

\* def index_file(filepath: Path, role: str = "default")
IndexFileParams == {"filepath", "role"}
\* index_file(file_path, user_id=user_id)
SaveAndIndexArgs == {"filepath", "user_id"}
\* a call binds when every argument names a parameter; otherwise TypeError
Binds(params, args) == args \subseteq params

\* index_file(filepath, role) on the file just written, every store call
\* going through
IndexUploaded(role, filename, content, st, exists) ==
    LET is_table == IsTable("index_file", filename)
        todo == ChunksToInsert("index_file", is_table, content)
    IN  IF is_error_response(content) \/ exists THEN st
        ELSE [fullDocs |-> Insert(DeleteMany(st.fullDocs, role, filename),
                                  FullRecord(role, filename, content)),
              documents |-> InsertAll(DeleteMany(st.documents, role, filename),
                                      [j \in 1..Len(todo) |->
                                          ChunkRecord(role, filename, _hash_content(content),
                                                      is_table, todo[j])])]

UploadInit ==
    /\ files \in {f \in [UploadKeys -> DocSet] : \A n \in UploadNames : f[RootKey(n)] = DocW}
    /\ fullDocs = EmptyBag
    /\ documents = EmptyBag
    /\ call = IdleCall
    /\ last = NoLast
    /\ nfail = 0
    /\ upload = [pc |-> "idle"]
    /\ removal = [k \in UploadKeys |-> IF k \in Keys THEN "present" ELSE "scanned"]
    /\ cli = [pc |-> "idle"]
    /\ down = FALSE
    /\ userMemory = EmptyBag
    /\ chatHistory = EmptyBag
    /\ clearing = [pc |-> "idle"]
    /\ legacy_runs = 0
    /\ SheetUnused
    /\ BatchUnused
    /\ LlmUnused
    /\ w_text = <<>>
    /\ w_max_words = 0
    /\ w_overlap_words = 0
    /\ windowed = FALSE
    /\ windows = <<>>
    /\ text = <<>>
    /\ max_chars = 0
    /\ overlap = 0
    /\ chunked = FALSE
    /\ chunks_out = <<>>
    /\ SearchUnused

UploadRest ==
    /\ UNCHANGED <<sheet, rendered, batch, llm>>
    /\ UNCHANGED <<w_text, w_max_words, w_overlap_words, windowed, windows>>
    /\ UNCHANGED <<cli, down, userMemory, chatHistory, clearing, legacy_runs>>
    /\ UNCHANGED <<chunkVars, searchVars>>

\* upload_file for the authenticated user u, and save_and_index_file: the
\* bytes are written to STORAGE_DIR / filename, index_file is called, and an
\* exception of either makes the function return False.
SaveAndIndexFile(u, filename, content) ==
    /\ files' = [files EXCEPT ![RootKey(filename)] = content]
    /\ removal' = [removal EXCEPT ![RootKey(filename)] = "present"]
    /\ IF Binds(IndexFileParams, SaveAndIndexArgs)
       THEN \E exists \in ExistsAnswers(fullDocs, filename, u, _hash_content(content)) :
               LET st == IndexUploaded(u, filename, content,
                                       [fullDocs |-> fullDocs, documents |-> documents], exists)
               IN  /\ fullDocs' = st.fullDocs
                   /\ documents' = st.documents
                   /\ upload' = [pc |-> "returned", user_id |-> u, filename |-> filename,
                                 content |-> content, success |-> TRUE, scans |-> 0]
       ELSE /\ UNCHANGED <<fullDocs, documents>>
            /\ upload' = [pc |-> "returned", user_id |-> u, filename |-> filename,
                          content |-> content, success |-> FALSE, scans |-> 0]
    /\ UNCHANGED <<call, last, nfail>>
    /\ UploadRest

\* load_storage_files(): every file of every user folder under the folder's
\* name, every file directly under storage/ under DEFAULT_USER_ID
StorageScan ==
    /\ \E ex \in [UploadKeys -> BOOLEAN] :
          /\ \A k \in UploadKeys :
                IF k \in Present(UploadKeys)
                THEN ex[k] \in ExistsAnswers(fullDocs, NameOf(k), OwnerOf(k),
                                             _hash_content(ContentRead("index_file_for_user", k)))
                ELSE ex[k] = FALSE
          /\ LET st == ScanLoop("index_file_for_user", Present(UploadKeys),
                                [fullDocs |-> fullDocs, documents |-> documents], ex)
             IN  /\ fullDocs' = st.fullDocs
                 /\ documents' = st.documents
    /\ upload' = IF upload.pc = "returned" /\ upload.scans = 0
                 THEN [upload EXCEPT !.scans = 1] ELSE upload
    /\ UNCHANGED <<files, removal, call, last, nfail>>
    /\ UploadRest

\* a user replaces a file of their own folder
UploadEditFile(k, c) ==
    /\ c # files[k]
    /\ files' = [files EXCEPT ![k] = c]
    /\ UNCHANGED <<fullDocs, documents, call, last, nfail, removal, upload>>
    /\ UploadRest

UploadNext ==
    \/ \E u \in Uploaders, n \in UploadNames, c \in DocSet : SaveAndIndexFile(u, n, c)
    \/ StorageScan
    \/ \E k \in Keys, c \in DocSet : UploadEditFile(k, c)

SpecUpload == UploadInit /\ [][UploadNext]_vars

\* the owners under which the store holds chunks of the content last
\* uploaded, by file name and hash
IndexedUnder ==
    {o \in UploadOwners :
        \E r \in BagToSet(documents) :
            r.user_id = o /\ r.filename = upload.filename /\ r.content # <<>>
            /\ \E via \in {"index_file", "index_file_for_user"} :
                  r.doc_hash = _hash_content(
                      IF via = "index_file" THEN upload.content
                      ELSE IF IsTable(via, upload.filename) THEN Strip(<<"P">> \o upload.content)
                      ELSE Strip(upload.content))}

\* C27: after the authenticated owner U has uploaded a supported, readable
\* file through save_and_index_file with the store connected, and after any
\* number of later storage scans, the file is indexed under owner U and under
\* no other owner; save_and_index_file returned True exactly when it indexed
\* the file.
C27_UploadIndexedUnderOwner ==
    upload.pc = "returned" =>
        /\ IndexedUnder = {upload.user_id}
        /\ upload.success = TRUE

-----------------------------------------------------------------------------
(* search_by_filename against the whole of the owner's chunks *)

\* the owner's stored chunks whose file name contains the pattern
StoredMatches(filename_pattern, uid) ==
    SelectSeq(OfUser(s_docs, uid), LAMBDA d : Contains(lower(d.filename), lower(filename_pattern)))

\* C28: if the owner has at least one stored chunk whose file name contains
\* the pattern (case-insensitive), search_by_filename(pattern, owner, limit)
\* with limit >= 1 returns at least one result, however many chunks the owner
\* has stored. (The filename signal of smart_search is this call with twice
\* the limit of the search.)
C28_FilenameSearchComplete ==
    (/\ searched
     /\ connected
     /\ "name" \notin signals.failed
     /\ Len(extract_filename_pattern(s_query)) > 0
     /\ s_limit >= 1
     /\ Len(StoredMatches(extract_filename_pattern(s_query), s_user_id)) >= 1)
    => /\ signals.name = search_by_filename(extract_filename_pattern(s_query), s_user_id, s_limit * 2)
       /\ Len(signals.name) >= 1

-----------------------------------------------------------------------------
(* The keyword fallback, file by file *)

\* the readable files of the directory whose text contains the query
MatchingFiles(q) ==
    {s_dir[i].filename : i \in {j \in 1..Len(s_dir) :
        /\ ~search_is_error_response(s_dir[j].content)
        /\ Len(Strip(lower(q))) > 0
        /\ Contains(lower(s_dir[j].content), Strip(lower(q)))}}

\* C29: when the store is connected and the filename and semantic signals
\* return no candidates, smart_search returns one entry for each readable
\* file that contains the query (case-insensitive), up to limit entries: a
\* file with many matches does not crowd out the other matching files.
C29_KeywordEntryPerFile ==
    (searched /\ connected /\ signals.name = <<>> /\ signals.sem = <<>>) =>
        /\ Len(results) = Min(Cardinality(MatchingFiles(s_query)), s_limit)
        /\ \A i \in 1..Len(results) :
              /\ results[i].match_type = "keyword"
              /\ results[i].filename \in MatchingFiles(s_query)
        /\ \A i, j \in 1..Len(results) : results[i].filename = results[j].filename => i = j

-----------------------------------------------------------------------------
(* send_to_llm (agent/models.py) *)

DEFAULT_MAX_TOKENS == 800
MIN_MAX_TOKENS == 400

\* the max_tokens a caller asks for: around the fallback value, and the default
MaxTokens == {MIN_MAX_TOKENS - 1, MIN_MAX_TOKENS, MIN_MAX_TOKENS + 1, DEFAULT_MAX_TOKENS}

\* The error messages of the completion endpoint, abridged: a plain one, one
\* that tells what the key can afford, one that quotes a token count.
MsgPlain == <<"x">>
MsgAfford == <<"A", "f", "f", "o", "r", "d">>
MsgTokenCount == <<"1", "4", "0", "2", "3">>
LlmErrors == [kind : {"error"}, status : {400, 402, 500}, message : {MsgPlain, MsgAfford, MsgTokenCount}]

\* what one completion request can come back with
LlmAnswers ==
    [kind : {"content"}, content : {<<"a">>, <<"b">>}]
    \cup {[kind |-> "no_choices"], [kind |-> "empty_content"]}
    \cup LlmErrors

StatusText(n) == CASE n = 400 -> <<"4", "0", "0">> [] n = 402 -> <<"4", "0", "2">> [] n = 500 -> <<"5", "0", "0">>

\* str(e): "Error code: <status> - <message>"
error_str(e) == <<"E">> \o StatusText(e.status) \o <<SP>> \o e.message

\* "402" in error_str or "afford" in error_str.lower()
LooksLike402(e) ==
    \/ Contains(error_str(e), <<"4", "0", "2">>)
    \/ Contains(lower(error_str(e)), <<"a", "f", "f", "o", "r", "d">>)

\* the texts the function returns on its own account
TextNoChoices == <<"n">>
TextEmptyContent == <<"e">>
TextEmptySecond == <<"E">>
TextNoCredits == <<"c">>
TextError(e) == <<"!">> \o error_str(e)

LlmInit ==
    /\ llm \in {[pc |-> "start", max_tokens |-> m, requests |-> <<>>, first |-> [kind |-> "none"],
                 second |-> [kind |-> "none"], result |-> [kind |-> "none"]] : m \in MaxTokens}
    /\ SheetUnused
    /\ BatchUnused
    /\ UploadUnused
    /\ w_text = <<>>
    /\ w_max_words = 0
    /\ w_overlap_words = 0
    /\ windowed = FALSE
    /\ windows = <<>>
    /\ text = <<>>
    /\ max_chars = 0
    /\ overlap = 0
    /\ chunked = FALSE
    /\ chunks_out = <<>>
    /\ IndexUnused
    /\ SearchUnused
    /\ OpsUnused

LlmRest ==
    /\ UNCHANGED <<sheet, rendered, batch, upload>>
    /\ UNCHANGED <<w_text, w_max_words, w_overlap_words, windowed, windows>>
    /\ UNCHANGED <<chunkVars, indexVars, searchVars, opsVars>>

Returned(l, t) == [l EXCEPT !.pc = "returned", !.result = [kind |-> "text", text |-> t]]

\* the first attempt, up to its return or to the except clause
FirstRequest(a) ==
    /\ llm.pc = "start"
    /\ LET l == [llm EXCEPT !.requests = Append(@, [max_tokens |-> llm.max_tokens]), !.first = a]
       IN  llm' = CASE a.kind = "no_choices" -> Returned(l, TextNoChoices)
                    [] a.kind = "empty_content" -> Returned(l, TextEmptyContent)
                    [] a.kind = "content" -> Returned(l, a.content)
                    [] a.kind = "error" -> [l EXCEPT !.pc = "except"]
    /\ LlmRest

\* the two tests that lead to the second attempt
RetryWanted(e, max_tokens) == LooksLike402(e) /\ max_tokens > MIN_MAX_TOKENS

\* except Exception as e: up to the second attempt, or to the return
HandleError ==
    /\ llm.pc = "except"
    /\ llm' = IF RetryWanted(llm.first, llm.max_tokens) THEN [llm EXCEPT !.pc = "retry"]
              ELSE IF LooksLike402(llm.first) THEN Returned(llm, TextNoCredits)
              ELSE Returned(llm, TextError(llm.first))
    /\ LlmRest

\* the second attempt: res.choices[0] of an answer without choices raises,
\* and that exception is caught like an error of the request
SecondRequest(a) ==
    /\ llm.pc = "retry"
    /\ LET l == [llm EXCEPT !.requests = Append(@, [max_tokens |-> MIN_MAX_TOKENS]), !.second = a]
       IN  llm' = CASE a.kind = "content" -> Returned(l, a.content)
                    [] a.kind = "empty_content" -> Returned(l, TextEmptySecond)
                    [] a.kind \in {"no_choices", "error"} -> Returned(l, TextNoCredits)
    /\ LlmRest

LlmNext ==
    \/ \E a \in LlmAnswers : FirstRequest(a)
    \/ HandleError
    \/ \E a \in LlmAnswers : SecondRequest(a)

SpecLlm == LlmInit /\ [][LlmNext]_vars

\* the first request failed for lack of credit
CreditError(e) ==
    /\ e.kind = "error"
    /\ e.status = 402 \/ Contains(lower(e.message), <<"a", "f", "f", "o", "r", "d">>)

\* C30: a call to send_to_llm never raises and issues at most two completion
\* requests; the second one is issued only after the first one failed with a
\* 402 / insufficient-credit error while the requested max_tokens was above
\* 400, it uses max_tokens = 400, and whatever its outcome the call returns a
\* text.
C30_BoundedRetry ==
    llm.pc # "idle" =>
        /\ Len(llm.requests) <= 2
        /\ llm.pc = "returned" => llm.result.kind = "text"
        /\ Len(llm.requests) = 2 =>
              /\ CreditError(llm.first)
              /\ llm.max_tokens > MIN_MAX_TOKENS
              /\ llm.requests[2].max_tokens = MIN_MAX_TOKENS
              /\ llm.pc = "returned"

====
